---- MODULE Spec2Model ----
(***************************************************************************)
(* Model of the authentication-and-compute-dispatch core of the proxy:     *)
(*   - console-redirect ("web") authentication,                            *)
(*     proxy/src/auth/backend/console_redirect.rs                          *)
(*   - the pooling backend of the HTTP path,                               *)
(*     proxy/src/serverless/backend.rs                                     *)
(* Strings whose content matters (session ids, greeting, host names) are   *)
(* sequences of characters or tokens; Option<T> is a sequence of length    *)
(* at most one (<<>> is None, <<x>> is Some(x)).                           *)
(***************************************************************************)
EXTENDS Integers, Sequences, FiniteSets, TLC

\* ------------------------------------------------------------------ bounds
NumSessions == 2
NumIds == 2
MaxCollisions == 1
\* webauth_confirmation_timeout, in ticks of the session's timer
WebauthConfirmationTimeout == 1
\* HTTP requests that call into the pooling backend
NumReqs == 2
\* connect_compute_locks: permits per host
PermitLimit == 1
\* connect_to_compute_retry_config: retries after the first attempt
MaxRetries == 1
\* endpoint_rate_limiter: tokens in the bucket of an endpoint
RateLimitBurst == 1

\* ------------------------------------------------------------- constants
\* rand::random::<[u8; 8]>()
IdBytes == 8

None == <<>>
Some(x) == <<x>>

Sessions == 1..NumSessions

\* ------------------------------------------------------- session-id minter
HexDigits ==
    <<"0", "1", "2", "3", "4", "5", "6", "7", "8", "9", "a", "b", "c", "d", "e", "f">>

\* hex::encode: two lowercase hex digits per byte, high nibble first
HexEncode(bytes) ==
    [i \in 1..(2 * Len(bytes)) |->
        IF i % 2 = 1
        THEN HexDigits[(bytes[(i + 1) \div 2] \div 16) + 1]
        ELSE HexDigits[(bytes[i \div 2] % 16) + 1]]

\* the outcomes of the random generator that the model draws from
RandomOutcomes ==
    {[i \in 1..IdBytes |-> (b + 34 * (i - 1)) % 256] : b \in 1..NumIds}

new_psql_session_id(random) == HexEncode(random)

SessionIds == {new_psql_session_id(r) : r \in RandomOutcomes}

\* ------------------------------------------------------------ data model
\* the peer address of each client
Peers == <<"10.0.0.1", "192.0.2.5">>
PeerOf(s) == Peers[((s - 1) % Len(Peers)) + 1]

HostSni == <<"h", "-", "-", "1", ".", "d", "b">>
HostPlain == <<"p", "-", "l", "-", "n", ".", "d", "b">>

\* DatabaseInfo values the control plane may deliver
DatabaseInfo(h, pw, ips) ==
    [host |-> h, port |-> 5432, dbname |-> "d", user |-> "u",
     password |-> pw, allowed_ips |-> ips, aux |-> "aux"]

DbInfos ==
    {DatabaseInfo(HostSni, None, None),
     DatabaseInfo(HostPlain, Some("secret"), Some(<<"10.0.0.1">>)),
     DatabaseInfo(HostSni, Some("secret"), Some(<<"192.0.2.5", "10.0.0.7">>)),
     DatabaseInfo(HostPlain, None, Some(<<>>))}

\* user and dbname of the client's startup message
Startups == <<[user |-> "u", dbname |-> "d"], [user |-> "mallory", dbname |-> "postgres"]>>
StartupOf(s) == Startups[((s - 1) % Len(Startups)) + 1]

console_uri == <<"https://c.example/psql_session/">>

\* ------------------------------------------------------------- messages
BeAuthenticationOk == [msg |-> "AuthenticationOk", body |-> <<>>]
BeClientEncoding == [msg |-> "ParameterStatus", body |-> <<"client_encoding", "UTF8">>]
BeNoticeResponse(text) == [msg |-> "NoticeResponse", body |-> text]
Flush == [msg |-> "Flush", body |-> <<>>]
ConnectingNotice == <<"Connecting to database.">>

hello_message(redirect_uri, session_id) ==
    <<"Welcome to Neon!\n", "Authenticate by visiting:\n", "    ">>
        \o redirect_uri \o session_id \o <<"\n\n">>

\* --------------------------------------------------------------- errors
WebAuthError(variant) ==
    [type |-> "WebAuthError", variant |-> variant, duration |-> 0, peer |-> ""]
confirmation_timeout(d) ==
    [type |-> "AuthError", variant |-> "ConfirmationTimeout", duration |-> d, peer |-> ""]
ip_address_not_allowed(peer) ==
    [type |-> "AuthError", variant |-> "IpAddressNotAllowed", duration |-> 0, peer |-> peer]

\* impl UserFacingError for WebAuthError
to_string_client(e) == "Internal error"

\* mutant: a waiter failure reported as the client's fault
get_error_kind_WaitAsUser(e) ==
    CASE e.variant = "WaiterRegister" -> "Service"
      [] e.variant = "WaiterWait" -> "User"
      [] e.variant = "Io" -> "ClientDisconnect"

\* impl ReportableError for WebAuthError
get_error_kind(e) ==
    CASE e.variant = "WaiterRegister" -> "Service"
      [] e.variant = "WaiterWait" -> "Service"
      [] e.variant = "Io" -> "ClientDisconnect"

Pending == [tag |-> "Pending", error |-> None, node |-> None]
Ok(node) == [tag |-> "Ok", error |-> None, node |-> Some(node)]
Err(e) == [tag |-> "Err", error |-> Some(e), node |-> None]

\* ------------------------------------------------------- waiter registry
Absent == [st |-> "absent", info |-> None]
SlotPending == [st |-> "pending", info |-> None]
SlotResolved(info) == [st |-> "resolved", info |-> Some(info)]
SlotCancelled == [st |-> "cancelled", info |-> None]

\* registry of one-shot rendezvous slots keyed by session id
get_waiter(reg, id) ==
    IF reg[id] = Absent
    THEN [ok |-> TRUE, reg |-> [reg EXCEPT ![id] = SlotPending]]
    ELSE [ok |-> FALSE, reg |-> reg]

\* the control-plane callback completes a pending slot; any other id is unknown
notify(reg, id, info) ==
    IF reg[id].st = "pending"
    THEN [res |-> "Ok", reg |-> [reg EXCEPT ![id] = SlotResolved(info)]]
    ELSE [res |-> "Unknown", reg |-> reg]

\* dropping the Waiter (consumed, timed out or cancelled) destroys its slot
drop_waiter(reg, w) ==
    IF w = None THEN reg ELSE [reg EXCEPT ![w[1]] = Absent]

\* ------------------------------------------------------------------ state
VARIABLES
    ip_allowlist_check_enabled, \* auth_config.ip_allowlist_check_enabled
    peer_addr,      \* ctx.peer_addr() of each session
    startup,        \* user and dbname of each client's startup message
    pc,             \* position of each authenticate call
    collisions,     \* failed registrations of each session so far
    psql_session_id, \* the id bound by the registration loop
    waiter,         \* the Waiter handle each session holds
    out,            \* what each session wrote to its client stream, in order
    clock,          \* ticks elapsed since the session began to wait
    db_info,        \* the DatabaseInfo the wait yielded
    ctx,            \* request context: auth method, dbname, user, project
    ret,            \* what authenticate returned
    registry,       \* waiter registry: session id -> slot
    lastNotify      \* the answer to the last control-plane callback

webVars ==
    <<ip_allowlist_check_enabled, peer_addr, startup, pc, collisions, psql_session_id,
      waiter, out, clock, db_info, ctx, ret, registry, lastNotify>>

VARIABLES
    auth_backend,   \* self.auth_backend: "ControlPlane" or "Local"
    rpc,            \* position of each request's connect_to_compute call
    conn_info,      \* the ConnInfo the call was given
    force_new,      \* its force_new argument
    node_info,      \* the CachedNodeInfo the controller holds
    num_retries,    \* connect attempts repeated so far
    wake_calls,     \* wake_compute calls made by the call
    permit_calls,   \* per-host permits acquired by the call
    connect_calls,  \* connect_once invocations made by the call
    held_permit,    \* the host whose permit the call holds
    client,         \* the pooled connection the call returned
    rret,           \* what connect_to_compute returned
    conns,          \* backend connections by conn_id
    pool,           \* native pool: ConnInfo -> idle conn_ids
    permits,        \* connect_compute_locks: host -> permits in use
    mech,           \* the path a request took: "tokio", "hyper" or "local"
    wake_log,       \* how each wake_compute call of a request was served
    last_err        \* the error of the request's last failed connect_once

poolVars ==
    <<auth_backend, rpc, conn_info, force_new, node_info, num_retries, wake_calls,
      permit_calls, connect_calls, held_permit, client, rret, conns, pool, permits,
      mech, wake_log, last_err>>

VARIABLES
    http_pool,      \* HTTP/2 local-proxy pool: ConnInfo -> idle conn_ids
    local_pool,     \* local-postgres pool: ConnInfo -> idle conn_ids
    session_init,   \* local connections on which select auth.init(..) has completed
    pw_pc,          \* position of each authenticate_with_password call
    pw_in,          \* its inputs and what the auth backend holds for the role
    pw_trace,       \* the checks the call has performed, in order
    pw_log,         \* what the call wrote to the log
    pw_ret,         \* what authenticate_with_password returned
    bucket,         \* endpoint_rate_limiter: endpoint -> tokens left
    cls_err,        \* the HttpConnError handed to the retry predicates
    cls_out,        \* what could_retry and should_retry_wake_compute answered
    h2_pc,          \* position of the connect_http2 call
    h2_in,          \* what the network holds for the call: resolution and fates
    addrs,          \* the iterator lookup_host returned: addresses not yet taken
    h2_last_err,    \* last_err of connect_http2
    h2_tried,       \* the addresses TcpStream::connect was called with, in order
    h2_spent,       \* ticks each of those connects was awaited
    stream,         \* the connected TcpStream
    h2_shaken,      \* the streams an HTTP/2 handshake was started on, in order
    h2_ret          \* what connect_http2 returned

lpoolVars == <<http_pool, local_pool, session_init>>

authVars == <<pw_pc, pw_in, pw_trace, pw_log, pw_ret, bucket>>

clsVars == <<cls_err, cls_out>>

h2Vars == <<h2_pc, h2_in, addrs, h2_last_err, h2_tried, h2_spent, stream, h2_shaken, h2_ret>>

extVars == <<lpoolVars, authVars, clsVars, h2Vars>>

vars == <<webVars, poolVars, extVars>>

CtxNew == [auth_method |-> None, dbname |-> None, user |-> None, project |-> None]

InitWeb ==
    /\ ip_allowlist_check_enabled \in BOOLEAN
    /\ peer_addr = [s \in Sessions |-> PeerOf(s)]
    /\ startup = [s \in Sessions |-> StartupOf(s)]
    /\ pc = [s \in Sessions |-> "register"]
    /\ collisions = [s \in Sessions |-> 0]
    /\ psql_session_id = [s \in Sessions |-> None]
    /\ waiter = [s \in Sessions |-> None]
    /\ out = [s \in Sessions |-> <<>>]
    /\ clock = [s \in Sessions |-> 0]
    /\ db_info = [s \in Sessions |-> None]
    /\ ctx = [s \in Sessions |-> CtxNew]
    /\ ret = [s \in Sessions |-> Pending]
    /\ registry = [id \in SessionIds |-> Absent]
    /\ lastNotify = None

\* --------------------------------------------------- console_redirect.rs
\* auth::check_peer_addr_is_in_list
check_peer_addr_is_in_list(peer, allowed_ips) ==
    \E i \in 1..Len(allowed_ips) : allowed_ips[i] = peer

\* str::contains
Contains(s, pat) ==
    \E i \in 0..(Len(s) - Len(pat)) : SubSeq(s, i + 1, i + Len(pat)) = pat

ConnCfgNew ==
    [host |-> None, port |-> None, dbname |-> None, user |-> None,
     password |-> None, ssl_mode |-> "Prefer"]

\* mutant: TLS is required as soon as the host holds a single dash
BuildNodeInfo_SingleDash(info) ==
    LET c1 == [ConnCfgNew EXCEPT !.host = Some(info.host), !.port = Some(info.port),
                                 !.dbname = Some(info.dbname), !.user = Some(info.user)]
        c2 == [c1 EXCEPT !.ssl_mode =
                  IF Contains(info.host, <<"-">>) THEN "Require" ELSE "Disable"]
        c3 == IF info.password # None
              THEN [c2 EXCEPT !.password = Some(info.password[1])]
              ELSE c2
    IN  [config |-> c3, aux |-> info.aux, allow_self_signed_compute |-> FALSE]

\* lines 155-185: the NodeInfo built from the delivered DatabaseInfo
BuildNodeInfo(info) ==
    LET c1 == [ConnCfgNew EXCEPT !.host = Some(info.host), !.port = Some(info.port),
                                 !.dbname = Some(info.dbname), !.user = Some(info.user)]
        c2 == [c1 EXCEPT !.ssl_mode =
                  IF Contains(info.host, <<"-", "-">>) THEN "Require" ELSE "Disable"]
        c3 == IF info.password # None
              THEN [c2 EXCEPT !.password = Some(info.password[1])]
              ELSE c2
    IN  [config |-> c3, aux |-> info.aux, allow_self_signed_compute |-> FALSE]

\* mutant: the negation of the membership test is lost
IpRejected_Inverted(s, info) ==
    /\ ip_allowlist_check_enabled
    /\ info.allowed_ips # None
    /\ check_peer_addr_is_in_list(peer_addr[s], info.allowed_ips[1])

\* lines 143-149
\* mutant: the allow-list is applied whether or not the check is enabled
IpRejected_IgnoresFlag(s, info) ==
    /\ info.allowed_ips # None
    /\ ~check_peer_addr_is_in_list(peer_addr[s], info.allowed_ips[1])

IpRejected(s, info) ==
    /\ ip_allowlist_check_enabled
    /\ info.allowed_ips # None
    /\ ~check_peer_addr_is_in_list(peer_addr[s], info.allowed_ips[1])

\* mutant: the wait has no deadline
TimeoutPoll_NoDeadline(slot, elapsed) ==
    IF slot.st \in {"resolved", "cancelled"} THEN "Ready" ELSE "Pending"

\* mutant: the deadline is looked at before the waiter
TimeoutPoll_DeadlineFirst(slot, elapsed) ==
    IF elapsed >= WebauthConfirmationTimeout THEN "Elapsed"
    ELSE IF slot.st \in {"resolved", "cancelled"} THEN "Ready"
    ELSE "Pending"

\* tokio::time::timeout(d, waiter): the waiter is polled first, then the deadline
TimeoutPoll(slot, elapsed) ==
    IF slot.st \in {"resolved", "cancelled"} THEN "Ready"
    ELSE IF elapsed >= WebauthConfirmationTimeout THEN "Elapsed"
    ELSE "Pending"

\* mutant: a collision is not noticed and the minted id is used all the same
MintAndRegister_IgnoreCollision(s) ==
    /\ pc[s] = "register"
    /\ ctx' = [ctx EXCEPT ![s].auth_method = Some("Web")]
    /\ \E random \in RandomOutcomes :
         LET id == new_psql_session_id(random)
         IN  /\ registry' = [registry EXCEPT ![id] =
                                IF @ = Absent THEN SlotPending ELSE @]
             /\ psql_session_id' = [psql_session_id EXCEPT ![s] = Some(id)]
             /\ waiter' = [waiter EXCEPT ![s] = Some(id)]
             /\ pc' = [pc EXCEPT ![s] = "greet"]
             /\ UNCHANGED collisions
    /\ UNCHANGED <<poolVars, extVars>>
    /\ UNCHANGED <<ip_allowlist_check_enabled, peer_addr, startup, out, clock, db_info,
                   ret, lastNotify>>

\* mutant: a collision is returned to the caller as WebAuthError::WaiterRegister
MintAndRegister_SurfaceCollision(s) ==
    /\ pc[s] = "register"
    /\ ctx' = [ctx EXCEPT ![s].auth_method = Some("Web")]
    /\ \E random \in RandomOutcomes :
         LET id == new_psql_session_id(random)
             r == get_waiter(registry, id)
         IN  IF r.ok
             THEN /\ registry' = r.reg
                  /\ psql_session_id' = [psql_session_id EXCEPT ![s] = Some(id)]
                  /\ waiter' = [waiter EXCEPT ![s] = Some(id)]
                  /\ pc' = [pc EXCEPT ![s] = "greet"]
                  /\ UNCHANGED <<collisions, ret>>
             ELSE /\ collisions[s] < MaxCollisions
                  /\ collisions' = [collisions EXCEPT ![s] = @ + 1]
                  /\ ret' = [ret EXCEPT ![s] = Err(WebAuthError("WaiterRegister"))]
                  /\ pc' = [pc EXCEPT ![s] = "done"]
                  /\ UNCHANGED <<registry, psql_session_id, waiter>>
    /\ UNCHANGED <<poolVars, extVars>>
    /\ UNCHANGED <<ip_allowlist_check_enabled, peer_addr, startup, out, clock, db_info,
                   lastNotify>>

\* lines 110-121: one iteration of the registration loop
MintAndRegister(s) ==
    /\ pc[s] = "register"
    /\ ctx' = [ctx EXCEPT ![s].auth_method = Some("Web")]
    /\ \E random \in RandomOutcomes :
         LET id == new_psql_session_id(random)
             r == get_waiter(registry, id)
         IN  IF r.ok
             THEN /\ registry' = r.reg
                  /\ psql_session_id' = [psql_session_id EXCEPT ![s] = Some(id)]
                  /\ waiter' = [waiter EXCEPT ![s] = Some(id)]
                  /\ pc' = [pc EXCEPT ![s] = "greet"]
                  /\ UNCHANGED collisions
             ELSE /\ collisions[s] < MaxCollisions
                  /\ collisions' = [collisions EXCEPT ![s] = @ + 1]
                  /\ UNCHANGED <<registry, psql_session_id, waiter, pc>>
    /\ UNCHANGED <<poolVars, extVars>>
    /\ UNCHANGED <<ip_allowlist_check_enabled, peer_addr, startup, out, clock, db_info,
                   ret, lastNotify>>

\* mutant: the Waiter outlives the call and its slot stays in the registry
EndWith_Leak(s, r, position) ==
    /\ ret' = [ret EXCEPT ![s] = r]
    /\ registry' = registry
    /\ waiter' = [waiter EXCEPT ![s] = None]
    /\ pc' = [pc EXCEPT ![s] = position]

\* an early return or a cancellation drops the Waiter the session holds
EndWith(s, r, position) ==
    /\ ret' = [ret EXCEPT ![s] = r]
    /\ registry' = drop_waiter(registry, waiter[s])
    /\ waiter' = [waiter EXCEPT ![s] = None]
    /\ pc' = [pc EXCEPT ![s] = position]

\* mutant: the greeting is sent before AuthenticationOk
GreetingMessages_Reordered(s) ==
    <<BeNoticeResponse(hello_message(console_uri, psql_session_id[s][1])),
      BeAuthenticationOk, BeClientEncoding>>

GreetingMessages(s) ==
    <<BeAuthenticationOk, BeClientEncoding,
      BeNoticeResponse(hello_message(console_uri, psql_session_id[s][1]))>>

\* lines 123-131: the three messages are buffered; each write may fail
SendGreeting(s) ==
    /\ pc[s] = "greet"
    /\ \/ /\ out' = [out EXCEPT ![s] = @ \o GreetingMessages(s)]
          /\ pc' = [pc EXCEPT ![s] = "flush"]
          /\ UNCHANGED <<ret, registry, waiter>>
       \/ \E k \in 0..2 :
            /\ out' = [out EXCEPT ![s] = @ \o SubSeq(GreetingMessages(s), 1, k)]
            /\ EndWith(s, Err(WebAuthError("Io")), "done")
    /\ UNCHANGED <<poolVars, extVars>>
    /\ UNCHANGED <<ip_allowlist_check_enabled, peer_addr, startup, collisions,
                   psql_session_id, clock, db_info, ctx, lastNotify>>

\* lines 131-132: write_message flushes the buffer to the client
FlushGreeting(s) ==
    /\ pc[s] = "flush"
    /\ \/ /\ out' = [out EXCEPT ![s] = Append(@, Flush)]
          /\ pc' = [pc EXCEPT ![s] = "wait"]
          /\ UNCHANGED <<ret, registry, waiter>>
       \/ /\ EndWith(s, Err(WebAuthError("Io")), "done")
          /\ UNCHANGED out
    /\ UNCHANGED <<poolVars, extVars>>
    /\ UNCHANGED <<ip_allowlist_check_enabled, peer_addr, startup, collisions,
                   psql_session_id, clock, db_info, ctx, lastNotify>>

\* time passes for a waiting session until its deadline
Tick(s) ==
    /\ pc[s] = "wait"
    /\ clock[s] < WebauthConfirmationTimeout
    /\ clock' = [clock EXCEPT ![s] = @ + 1]
    /\ UNCHANGED <<poolVars, extVars>>
    /\ UNCHANGED <<ip_allowlist_check_enabled, peer_addr, startup, pc, collisions,
                   psql_session_id, waiter, out, db_info, ctx, ret, registry, lastNotify>>

\* lines 143-185: what follows a delivered DatabaseInfo
AfterWait(s, info) ==
    /\ db_info' = [db_info EXCEPT ![s] = Some(info)]
    /\ \/ /\ IpRejected(s, info)
          /\ EndWith(s, Err(ip_address_not_allowed(peer_addr[s])), "done")
          /\ UNCHANGED <<out, ctx>>
       \/ /\ ~IpRejected(s, info)
          /\ EndWith(s, Err(WebAuthError("Io")), "done")
          /\ UNCHANGED <<out, ctx>>
       \/ /\ ~IpRejected(s, info)
          /\ out' = [out EXCEPT ![s] = Append(@, BeNoticeResponse(ConnectingNotice))]
          /\ ctx' = [ctx EXCEPT ![s].dbname = Some(info.dbname),
                                ![s].user = Some(info.user),
                                ![s].project = Some(info.aux)]
          /\ EndWith(s, Ok(BuildNodeInfo(info)), "done")

\* lines 134-185: the bounded wait and everything after it
AwaitWaiter(s) ==
    /\ pc[s] = "wait"
    /\ LET slot == registry[waiter[s][1]]
           polled == TimeoutPoll(slot, clock[s])
       IN  \/ /\ polled = "Elapsed"
              /\ EndWith(s, Err(confirmation_timeout(WebauthConfirmationTimeout)), "done")
              /\ UNCHANGED <<out, ctx, db_info>>
           \/ /\ polled = "Ready"
              /\ slot.st = "cancelled"
              /\ EndWith(s, Err(WebAuthError("WaiterWait")), "done")
              /\ UNCHANGED <<out, ctx, db_info>>
           \/ /\ polled = "Ready"
              /\ slot.st = "resolved"
              /\ AfterWait(s, slot.info[1])
    /\ UNCHANGED <<poolVars, extVars>>
    /\ UNCHANGED <<ip_allowlist_check_enabled, peer_addr, startup, collisions,
                   psql_session_id, clock, lastNotify>>

\* the task running authenticate is dropped at one of its two await points
Cancel(s) ==
    /\ pc[s] \in {"flush", "wait"}
    /\ EndWith(s, ret[s], "cancelled")
    /\ UNCHANGED <<poolVars, extVars>>
    /\ UNCHANGED <<ip_allowlist_check_enabled, peer_addr, startup, collisions,
                   psql_session_id, out, clock, db_info, ctx, lastNotify>>

\* the control plane calls back with the DatabaseInfo for a session id
Notify(id, info) ==
    /\ LET r == notify(registry, id, info)
       IN  /\ registry' = r.reg
           /\ lastNotify' = Some(r.res)
    /\ UNCHANGED <<poolVars, extVars>>
    /\ UNCHANGED <<ip_allowlist_check_enabled, peer_addr, startup, pc, collisions,
                   psql_session_id, waiter, out, clock, db_info, ctx, ret>>

\* the producer side of a pending slot goes away without a payload
DropSlot(id) ==
    /\ registry[id].st = "pending"
    /\ registry' = [registry EXCEPT ![id] = SlotCancelled]
    /\ UNCHANGED <<poolVars, extVars>>
    /\ UNCHANGED <<ip_allowlist_check_enabled, peer_addr, startup, pc, collisions,
                   psql_session_id, waiter, out, clock, db_info, ctx, ret, lastNotify>>

\* ============================================================ backend.rs
Reqs == 1..NumReqs

\* pool keys: user identity plus target dbname
ConnInfos == {[user |-> "u1", dbname |-> "d1"], [user |-> "u1", dbname |-> "d2"]}

ComputeHost == "10.1.0.1"

\* node infos that wake_compute may answer with
ComputeNodes ==
    {[host |-> Some(ComputeHost), user |-> "cloud_admin", dbname |-> "postgres",
      ports |-> <<5432>>],
     [host |-> None, user |-> "cloud_admin", dbname |-> "postgres", ports |-> <<5432>>]}

\* node infos that wake_compute may answer with for the "-local-proxy" endpoint
LocalProxyNodes ==
    {[host |-> Some(ComputeHost), user |-> "cloud_admin", dbname |-> "postgres",
      ports |-> <<4444>>],
     [host |-> Some(ComputeHost), user |-> "cloud_admin", dbname |-> "postgres",
      ports |-> <<>>],
     [host |-> None, user |-> "cloud_admin", dbname |-> "postgres", ports |-> <<4444>>]}

\* the node info of the Local auth backend
LocalNode ==
    [host |-> Some(ComputeHost), user |-> "local", dbname |-> "postgres",
     ports |-> <<5432>>]

\* what could_retry and should_retry_wake_compute answer for a tokio_postgres::Error
PgErrors == [could_retry : BOOLEAN, should_retry_wake_compute : BOOLEAN]

NoInner == [could_retry |-> FALSE, should_retry_wake_compute |-> FALSE]

\* enum HttpConnError; inner is the wrapped error of a delegating variant
HttpConnError(variant, local, inner) ==
    [variant |-> variant, local |-> local, inner |-> inner]

\* mutant: an Io failure of the HTTP/2 leg counts as transient
local_proxy_could_retry_IoTransient(local) ==
    CASE local = "Io" -> TRUE
      [] local = "H2" -> FALSE

\* impl CouldRetry for LocalProxyConnError
local_proxy_could_retry(local) ==
    CASE local = "Io" -> FALSE
      [] local = "H2" -> FALSE

\* impl ShouldRetryWakeCompute for LocalProxyConnError
local_proxy_should_retry_wake_compute(local) ==
    CASE local = "Io" -> FALSE
      [] local = "H2" -> FALSE

\* impl CouldRetry for HttpConnError
could_retry(e) ==
    CASE e.variant = "PostgresConnectionError" -> e.inner.could_retry
      [] e.variant = "LocalProxyConnectionError" -> local_proxy_could_retry(e.local)
      [] e.variant = "ConnectionClosedAbruptly" -> FALSE
      [] e.variant = "JwtPayloadError" -> FALSE
      [] e.variant = "GetAuthInfo" -> FALSE
      [] e.variant = "AuthError" -> FALSE
      [] e.variant = "WakeCompute" -> FALSE
      [] e.variant = "TooManyConnectionAttempts" -> FALSE

\* impl ShouldRetryWakeCompute for HttpConnError
should_retry_wake_compute(e) ==
    CASE e.variant = "PostgresConnectionError" -> e.inner.should_retry_wake_compute
      [] e.variant = "TooManyConnectionAttempts" -> FALSE
      [] OTHER -> TRUE

NoConn == [st |-> "none", key |-> [user |-> "", dbname |-> ""], user |-> "",
           dbname |-> "", closed |-> FALSE]

CallPending == [tag |-> "Pending", conn |-> None, error |-> None]
CallOk(c) == [tag |-> "Ok", conn |-> Some(c), error |-> None]
CallErr(e) == [tag |-> "Err", conn |-> None, error |-> Some(e)]

InitPool ==
    /\ auth_backend \in {"ControlPlane", "Local"}
    /\ rpc = [r \in Reqs |-> "start"]
    /\ conn_info = [r \in Reqs |-> None]
    /\ force_new = [r \in Reqs |-> FALSE]
    /\ node_info = [r \in Reqs |-> None]
    /\ num_retries = [r \in Reqs |-> 0]
    /\ wake_calls = [r \in Reqs |-> 0]
    /\ permit_calls = [r \in Reqs |-> 0]
    /\ connect_calls = [r \in Reqs |-> 0]
    /\ held_permit = [r \in Reqs |-> None]
    /\ client = [r \in Reqs |-> None]
    /\ rret = [r \in Reqs |-> CallPending]
    /\ conns = [c \in Reqs |-> NoConn]
    /\ pool = [k \in ConnInfos |-> {}]
    /\ permits = [h \in {ComputeHost} |-> 0]
    /\ mech = [r \in Reqs |-> "none"]
    /\ wake_log = [r \in Reqs |-> <<>>]
    /\ last_err = [r \in Reqs |-> None]

\* mutant: the lookup hands out an idle entry and leaves it in the idle set
pool_get_LeavesIdle(key) ==
    IF pool[key] = {}
    THEN {[res |-> "none", conn |-> 0, pool |-> pool]}
    ELSE UNION {
        IF ~conns[c].closed
        THEN {[res |-> "hit", conn |-> c, pool |-> pool]}
        ELSE {[res |-> r, conn |-> 0, pool |-> [pool EXCEPT ![key] = @ \ {c}]] :
                 r \in {"none", "err"}}
        : c \in pool[key]}

\* mutant: the lookup hands out an idle entry whatever its driver has seen
pool_get_YieldsDead(key) ==
    IF pool[key] = {}
    THEN {[res |-> "none", conn |-> 0, pool |-> pool]}
    ELSE {[res |-> "hit", conn |-> c, pool |-> [pool EXCEPT ![key] = @ \ {c}]] :
             c \in pool[key]}

\* GlobalConnPool::get: the outcomes of a lookup under key. An idle entry with a
\* live driver is checked out; one whose driver has ended is removed by this first
\* observation, and the lookup then misses or fails with the pool's error.
pool_get(key) ==
    IF pool[key] = {}
    THEN {[res |-> "none", conn |-> 0, pool |-> pool]}
    ELSE UNION {
        IF ~conns[c].closed
        THEN {[res |-> "hit", conn |-> c, pool |-> [pool EXCEPT ![key] = @ \ {c}]]}
        ELSE {[res |-> r, conn |-> 0, pool |-> [pool EXCEPT ![key] = @ \ {c}]] :
                 r \in {"none", "err"}}
        : c \in pool[key]}

\* the call returns: a permit still held is released on drop
Return(r, result) ==
    /\ rret' = [rret EXCEPT ![r] = result]
    /\ rpc' = [rpc EXCEPT ![r] = "done"]

\* mutant: the pool is consulted whatever force_new says
CtcLookup_IgnoreForceNew(r) ==
    /\ rpc[r] = "start"
    /\ \E ci \in ConnInfos, fn \in BOOLEAN :
         /\ conn_info' = [conn_info EXCEPT ![r] = Some(ci)]
         /\ force_new' = [force_new EXCEPT ![r] = fn]
         /\ mech' = [mech EXCEPT ![r] = "tokio"]
         /\ \E o \in pool_get(ci) :
              /\ pool' = o.pool
              /\ \/ /\ o.res = "hit"
                    /\ client' = [client EXCEPT ![r] = Some(o.conn)]
                    /\ Return(r, CallOk(o.conn))
                 \/ /\ o.res = "none"
                    /\ rpc' = [rpc EXCEPT ![r] = "wake"]
                    /\ UNCHANGED <<client, rret>>
                 \/ /\ o.res = "err"
                    /\ Return(r, CallErr(HttpConnError("ConnectionClosedAbruptly", "", NoInner)))
                    /\ UNCHANGED client
    /\ UNCHANGED <<auth_backend, wake_log, last_err, node_info, num_retries, wake_calls, permit_calls,
                   connect_calls, held_permit, conns, permits>>
    /\ UNCHANGED <<webVars, extVars>>

\* connect_to_compute, lines 165-186: the pool lookup
CtcLookup(r) ==
    /\ rpc[r] = "start"
    /\ \E ci \in ConnInfos, fn \in BOOLEAN :
         /\ conn_info' = [conn_info EXCEPT ![r] = Some(ci)]
         /\ force_new' = [force_new EXCEPT ![r] = fn]
         /\ mech' = [mech EXCEPT ![r] = "tokio"]
         /\ \/ /\ fn
               /\ rpc' = [rpc EXCEPT ![r] = "wake"]
               /\ UNCHANGED <<client, rret, pool>>
            \/ /\ ~fn
               /\ \E o \in pool_get(ci) :
                    /\ pool' = o.pool
                    /\ \/ /\ o.res = "hit"
                          /\ client' = [client EXCEPT ![r] = Some(o.conn)]
                          /\ Return(r, CallOk(o.conn))
                       \/ /\ o.res = "none"
                          /\ rpc' = [rpc EXCEPT ![r] = "wake"]
                          /\ UNCHANGED <<client, rret>>
                       \/ /\ o.res = "err"
                          /\ Return(r, CallErr(HttpConnError("ConnectionClosedAbruptly",
                                                             "", NoInner)))
                          /\ UNCHANGED client
    /\ UNCHANGED <<auth_backend, wake_log, last_err, node_info, num_retries, wake_calls, permit_calls,
                   connect_calls, held_permit, conns, permits>>
    /\ UNCHANGED <<webVars, extVars>>

\* the node infos wake_compute may answer with for the endpoint of mechanism m
NodesOf(m) == IF m = "hyper" THEN LocalProxyNodes ELSE ComputeNodes

\* mutant: a forced wake may be served from the cache again
WakeCompute_StaleCache(r) ==
    /\ rpc[r] = "wake"
    /\ wake_calls' = [wake_calls EXCEPT ![r] = @ + 1]
    /\ \/ /\ auth_backend = "Local"
          /\ node_info' = [node_info EXCEPT ![r] = Some(LocalNode)]
          /\ wake_log' = [wake_log EXCEPT ![r] = Append(@, "attached")]
          /\ rpc' = [rpc EXCEPT ![r] = "acquire"]
          /\ UNCHANGED rret
       \/ /\ auth_backend = "ControlPlane"
          /\ \E n \in NodesOf(mech[r]), how \in {"cache", "rpc"} :
               /\ node_info' = [node_info EXCEPT ![r] = Some(n)]
               /\ wake_log' = [wake_log EXCEPT ![r] = Append(@, how)]
          /\ rpc' = [rpc EXCEPT ![r] = "acquire"]
          /\ UNCHANGED rret
       \/ /\ auth_backend = "ControlPlane"
          /\ wake_log' = [wake_log EXCEPT ![r] = Append(@, "rpc")]
          /\ Return(r, CallErr(HttpConnError("WakeCompute", "", NoInner)))
          /\ UNCHANGED node_info
    /\ UNCHANGED <<auth_backend, mech, last_err, conn_info, force_new, num_retries, permit_calls,
                   connect_calls, held_permit, client, conns, pool, permits>>
    /\ UNCHANGED <<webVars, extVars>>

\* retry/wake controller, step 1: obtain the node info. The Local backend attaches
\* it to the credentials; the ControlPlane backend calls wake_compute, which answers
\* the first call of a request from its cache or by an RPC, and a call that follows an
\* invalidation by an RPC.
WakeCompute(r) ==
    /\ rpc[r] = "wake"
    /\ wake_calls' = [wake_calls EXCEPT ![r] = @ + 1]
    /\ \/ /\ auth_backend = "Local"
          /\ node_info' = [node_info EXCEPT ![r] = Some(LocalNode)]
          /\ wake_log' = [wake_log EXCEPT ![r] = Append(@, "attached")]
          /\ rpc' = [rpc EXCEPT ![r] = "acquire"]
          /\ UNCHANGED rret
       \/ /\ auth_backend = "ControlPlane"
          /\ \E n \in NodesOf(mech[r]),
                how \in IF wake_calls[r] = 0 THEN {"cache", "rpc"} ELSE {"rpc"} :
               /\ node_info' = [node_info EXCEPT ![r] = Some(n)]
               /\ wake_log' = [wake_log EXCEPT ![r] = Append(@, how)]
          /\ rpc' = [rpc EXCEPT ![r] = "acquire"]
          /\ UNCHANGED rret
       \/ /\ auth_backend = "ControlPlane"
          /\ wake_log' = [wake_log EXCEPT ![r] = Append(@, "rpc")]
          /\ Return(r, CallErr(HttpConnError("WakeCompute", "", NoInner)))
          /\ UNCHANGED node_info
    /\ UNCHANGED <<auth_backend, mech, last_err, conn_info, force_new, num_retries, permit_calls,
                   connect_calls, held_permit, client, conns, pool, permits>>
    /\ UNCHANGED <<webVars, extVars>>

\* retry/wake controller, steps 4-5: classify the error of a failed attempt
ControllerOnError(r, e) ==
    /\ last_err' = [last_err EXCEPT ![r] = Some(e)]
    /\ IF could_retry(e) /\ num_retries[r] < MaxRetries
       THEN /\ num_retries' = [num_retries EXCEPT ![r] = @ + 1]
            /\ IF should_retry_wake_compute(e)
               THEN /\ node_info' = [node_info EXCEPT ![r] = None]
                    /\ rpc' = [rpc EXCEPT ![r] = "wake"]
               ELSE /\ rpc' = [rpc EXCEPT ![r] = "acquire"]
                    /\ UNCHANGED node_info
            /\ UNCHANGED rret
       ELSE /\ Return(r, CallErr(e))
            /\ UNCHANGED <<num_retries, node_info>>

\* mutant: the attempt starts whether or not a permit is free
ConnectOnceAcquire_NoLimit(r) ==
    /\ rpc[r] = "acquire"
    /\ mech[r] = "tokio"
    /\ connect_calls' = [connect_calls EXCEPT ![r] = @ + 1]
    /\ LET host == node_info[r][1].host
       IN  \/ /\ host = None
              /\ ControllerOnError(r, HttpConnError("WakeCompute", "", NoInner))
              /\ UNCHANGED <<permits, held_permit, permit_calls>>
           \/ /\ host # None
              /\ permits' = [permits EXCEPT ![host[1]] = @ + 1]
              /\ held_permit' = [held_permit EXCEPT ![r] = host]
              /\ permit_calls' = [permit_calls EXCEPT ![r] = @ + 1]
              /\ rpc' = [rpc EXCEPT ![r] = "connecting"]
              /\ UNCHANGED <<rret, num_retries, node_info, last_err>>
    /\ UNCHANGED <<auth_backend, mech, wake_log, conn_info, force_new, wake_calls, client,
                   conns, pool>>
    /\ UNCHANGED <<webVars, extVars>>

\* TokioMechanism::connect_once, lines 453-454: host and per-host permit
ConnectOnceAcquire(r) ==
    /\ rpc[r] = "acquire"
    /\ mech[r] = "tokio"
    /\ connect_calls' = [connect_calls EXCEPT ![r] = @ + 1]
    /\ LET host == node_info[r][1].host
       IN  \/ /\ host = None
              /\ ControllerOnError(r, HttpConnError("WakeCompute", "", NoInner))
              /\ UNCHANGED <<permits, held_permit, permit_calls>>
           \/ /\ host # None
              /\ permits[host[1]] < PermitLimit
              /\ permits' = [permits EXCEPT ![host[1]] = @ + 1]
              /\ held_permit' = [held_permit EXCEPT ![r] = host]
              /\ permit_calls' = [permit_calls EXCEPT ![r] = @ + 1]
              /\ rpc' = [rpc EXCEPT ![r] = "connecting"]
              /\ UNCHANGED <<rret, num_retries, node_info, last_err>>
           \/ /\ host # None
              /\ permits[host[1]] >= PermitLimit
              /\ ControllerOnError(r, HttpConnError("TooManyConnectionAttempts", "", NoInner))
              /\ UNCHANGED <<permits, held_permit, permit_calls>>
    /\ UNCHANGED <<auth_backend, mech, wake_log, conn_info, force_new, wake_calls, client, conns, pool>>
    /\ UNCHANGED <<webVars, extVars>>

\* mutant: the connection is opened with the user and dbname of the node info
ConnectConfig_NodeUser(node, ci) == node

\* TokioMechanism::connect_once, lines 456-460: the node's config with user and
\* dbname taken from the pool key
ConnectConfig(node, ci) == [node EXCEPT !.user = ci.user, !.dbname = ci.dbname]

\* TokioMechanism::connect_once, lines 456-476: connect, release the permit with
\* the outcome, install the connection through poll_client
ConnectOnceFinish(r) ==
    /\ rpc[r] = "connecting"
    /\ mech[r] = "tokio"
    /\ permits' = [permits EXCEPT ![held_permit[r][1]] = @ - 1]
    /\ held_permit' = [held_permit EXCEPT ![r] = None]
    /\ \/ /\ LET config == ConnectConfig(node_info[r][1], conn_info[r][1])
             IN  conns' = [conns EXCEPT ![r] =
                             [st |-> "open", key |-> conn_info[r][1],
                              user |-> config.user, dbname |-> config.dbname,
                              closed |-> FALSE]]
          /\ client' = [client EXCEPT ![r] = Some(r)]
          /\ Return(r, CallOk(r))
          /\ UNCHANGED <<num_retries, node_info, last_err>>
       \/ /\ \E inner \in PgErrors :
               ControllerOnError(r, HttpConnError("PostgresConnectionError", "", inner))
          /\ UNCHANGED <<conns, client>>
    /\ UNCHANGED <<auth_backend, mech, wake_log, conn_info, force_new, wake_calls, permit_calls,
                   connect_calls, pool>>
    /\ UNCHANGED <<webVars, extVars>>

\* the caller's cancellation aborts the call at an await point
CtcCancel(r) ==
    /\ rpc[r] \in {"wake", "acquire", "connecting"}
    /\ rpc' = [rpc EXCEPT ![r] = "cancelled"]
    /\ permits' = IF held_permit[r] = None THEN permits
                  ELSE [permits EXCEPT ![held_permit[r][1]] = @ - 1]
    /\ held_permit' = [held_permit EXCEPT ![r] = None]
    /\ UNCHANGED <<auth_backend, mech, wake_log, last_err, conn_info, force_new, node_info, num_retries, wake_calls,
                   permit_calls, connect_calls, client, rret, conns, pool>>
    /\ UNCHANGED <<webVars, extVars>>

\* the session drops its Client: a reusable connection is checked in under its key
ClientDrop(r) ==
    /\ rpc[r] = "done"
    /\ client[r] # None
    /\ mech[client[r][1]] = "tokio"
    /\ LET c == client[r][1]
       IN  \/ /\ ~conns[c].closed
              /\ pool' = [pool EXCEPT ![conns[c].key] = @ \cup {c}]
              /\ UNCHANGED conns
           \/ /\ conns' = [conns EXCEPT ![c].closed = TRUE]
              /\ UNCHANGED pool
    /\ client' = [client EXCEPT ![r] = None]
    /\ rpc' = [rpc EXCEPT ![r] = "dropped"]
    /\ UNCHANGED <<auth_backend, mech, wake_log, last_err, conn_info, force_new, node_info, num_retries, wake_calls,
                   permit_calls, connect_calls, held_permit, rret, permits>>
    /\ UNCHANGED <<webVars, extVars>>

\* the driver task of a connection observes a terminal error
DriverFail(c) ==
    /\ conns[c].st = "open"
    /\ ~conns[c].closed
    /\ conns' = [conns EXCEPT ![c].closed = TRUE]
    /\ UNCHANGED <<auth_backend, mech, wake_log, last_err, rpc, conn_info, force_new, node_info, num_retries,
                   wake_calls, permit_calls, connect_calls, held_permit, client, rret,
                   pool, permits>>
    /\ UNCHANGED <<webVars, extVars>>

\* the ended driver task removes its entry from the idle set
DriverRemove(c) ==
    /\ conns[c].closed
    /\ mech[c] = "tokio"
    /\ c \in pool[conns[c].key]
    /\ pool' = [pool EXCEPT ![conns[c].key] = @ \ {c}]
    /\ UNCHANGED <<auth_backend, mech, wake_log, last_err, rpc, conn_info, force_new, node_info, num_retries,
                   wake_calls, permit_calls, connect_calls, held_permit, client, rret,
                   conns, permits>>
    /\ UNCHANGED <<webVars, extVars>>

\* ------------------------------- backend.rs: the local-proxy (HTTP/2) path
PoolVarsRest ==
    <<auth_backend, force_new, wake_log, last_err, node_info, num_retries, wake_calls,
      permit_calls, connect_calls, held_permit, conns, pool, permits>>

\* http_conn_pool::GlobalConnPool::get: an idle entry of the key with a live driver,
\* or nothing; an entry whose driver has ended is removed when it is met
http_pool_get(key) ==
    IF http_pool[key] = {}
    THEN {[res |-> "none", conn |-> 0, pool |-> http_pool]}
    ELSE {[res |-> IF conns[c].closed THEN "none" ELSE "hit", conn |-> c,
           pool |-> [http_pool EXCEPT ![key] = @ \ {c}]] : c \in http_pool[key]}

\* connect_to_local_proxy, lines 205-217: the pool lookup
LpLookup(r) ==
    /\ rpc[r] = "start"
    /\ \E ci \in ConnInfos :
         /\ conn_info' = [conn_info EXCEPT ![r] = Some(ci)]
         /\ mech' = [mech EXCEPT ![r] = "hyper"]
         /\ \E o \in http_pool_get(ci) :
              /\ http_pool' = o.pool
              /\ \/ /\ o.res = "hit"
                    /\ client' = [client EXCEPT ![r] = Some(o.conn)]
                    /\ Return(r, CallOk(o.conn))
                 \/ /\ o.res = "none"
                    /\ rpc' = [rpc EXCEPT ![r] = "wake"]
                    /\ UNCHANGED <<client, rret>>
    /\ UNCHANGED PoolVarsRest
    /\ UNCHANGED <<local_pool, session_init, webVars, authVars, clsVars, h2Vars>>

\* mutant: the permit taken for the attempt is kept when the port is missing
HyperConnectOnceAcquire_KeepsPermit(r) ==
    /\ rpc[r] = "acquire"
    /\ mech[r] = "hyper"
    /\ connect_calls' = [connect_calls EXCEPT ![r] = @ + 1]
    /\ LET host == node_info[r][1].host
       IN  /\ host # None
           /\ permits[host[1]] < PermitLimit
           /\ permit_calls' = [permit_calls EXCEPT ![r] = @ + 1]
           /\ permits' = [permits EXCEPT ![host[1]] = @ + 1]
           /\ held_permit' = [held_permit EXCEPT ![r] = host]
           /\ IF node_info[r][1].ports = <<>>
              THEN ControllerOnError(r, HttpConnError("WakeCompute", "", NoInner))
              ELSE /\ rpc' = [rpc EXCEPT ![r] = "connecting"]
                   /\ UNCHANGED <<rret, num_retries, node_info, last_err>>
    /\ UNCHANGED <<auth_backend, mech, wake_log, conn_info, force_new, wake_calls, client,
                   conns, pool>>
    /\ UNCHANGED <<webVars, extVars>>

\* HyperMechanism::connect_once, lines 503-512: host, per-host permit, port. A
\* missing port returns at once and the permit is dropped with the frame.
HyperConnectOnceAcquire(r) ==
    /\ rpc[r] = "acquire"
    /\ mech[r] = "hyper"
    /\ connect_calls' = [connect_calls EXCEPT ![r] = @ + 1]
    /\ LET host == node_info[r][1].host
       IN  \/ /\ host = None
              /\ ControllerOnError(r, HttpConnError("WakeCompute", "", NoInner))
              /\ UNCHANGED <<permits, held_permit, permit_calls>>
           \/ /\ host # None
              /\ permits[host[1]] < PermitLimit
              /\ permit_calls' = [permit_calls EXCEPT ![r] = @ + 1]
              /\ IF node_info[r][1].ports = <<>>
                 THEN /\ ControllerOnError(r, HttpConnError("WakeCompute", "", NoInner))
                      /\ UNCHANGED <<permits, held_permit>>
                 ELSE /\ permits' = [permits EXCEPT ![host[1]] = @ + 1]
                      /\ held_permit' = [held_permit EXCEPT ![r] = host]
                      /\ rpc' = [rpc EXCEPT ![r] = "connecting"]
                      /\ UNCHANGED <<rret, num_retries, node_info, last_err>>
           \/ /\ host # None
              /\ permits[host[1]] >= PermitLimit
              /\ ControllerOnError(r, HttpConnError("TooManyConnectionAttempts", "", NoInner))
              /\ UNCHANGED <<permits, held_permit, permit_calls>>
    /\ UNCHANGED <<auth_backend, mech, wake_log, conn_info, force_new, wake_calls, client,
                   conns, pool>>
    /\ UNCHANGED <<webVars, extVars>>

\* HyperMechanism::connect_once, lines 513-525: connect_http2, release the permit
\* with the outcome, install the connection through poll_http2_client
HyperConnectOnceFinish(r) ==
    /\ rpc[r] = "connecting"
    /\ mech[r] = "hyper"
    /\ permits' = [permits EXCEPT ![held_permit[r][1]] = @ - 1]
    /\ held_permit' = [held_permit EXCEPT ![r] = None]
    /\ \/ /\ conns' = [conns EXCEPT ![r] =
                          [st |-> "open", key |-> conn_info[r][1], user |-> "",
                           dbname |-> "", closed |-> FALSE]]
          /\ client' = [client EXCEPT ![r] = Some(r)]
          /\ Return(r, CallOk(r))
          /\ UNCHANGED <<num_retries, node_info, last_err>>
       \/ /\ \E l \in {"Io", "H2"} :
               ControllerOnError(r, HttpConnError("LocalProxyConnectionError", l, NoInner))
          /\ UNCHANGED <<conns, client>>
    /\ UNCHANGED <<auth_backend, mech, wake_log, conn_info, force_new, wake_calls,
                   permit_calls, connect_calls, pool>>
    /\ UNCHANGED <<webVars, extVars>>

\* the session drops its http_conn_pool::Client
HttpClientDrop(r) ==
    /\ rpc[r] = "done"
    /\ client[r] # None
    /\ mech[client[r][1]] = "hyper"
    /\ LET c == client[r][1]
       IN  \/ /\ ~conns[c].closed
              /\ http_pool' = [http_pool EXCEPT ![conns[c].key] = @ \cup {c}]
              /\ UNCHANGED conns
           \/ /\ conns' = [conns EXCEPT ![c].closed = TRUE]
              /\ UNCHANGED http_pool
    /\ client' = [client EXCEPT ![r] = None]
    /\ rpc' = [rpc EXCEPT ![r] = "dropped"]
    /\ UNCHANGED <<auth_backend, mech, wake_log, last_err, conn_info, force_new, node_info,
                   num_retries, wake_calls, permit_calls, connect_calls, held_permit, rret,
                   pool, permits>>
    /\ UNCHANGED <<local_pool, session_init, webVars, authVars, clsVars, h2Vars>>

\* the ended driver task of an HTTP/2 connection removes its entry from the idle set
HttpDriverRemove(c) ==
    /\ conns[c].closed
    /\ mech[c] = "hyper"
    /\ c \in http_pool[conns[c].key]
    /\ http_pool' = [http_pool EXCEPT ![conns[c].key] = @ \ {c}]
    /\ UNCHANGED <<poolVars, local_pool, session_init, webVars, authVars, clsVars, h2Vars>>

\* ---------------------------------- backend.rs: connect_to_local_postgres
\* LocalConnPool::get: as the native pool's lookup, over the local pool
local_pool_get(key) ==
    IF local_pool[key] = {}
    THEN {[res |-> "none", conn |-> 0, pool |-> local_pool]}
    ELSE UNION {
        IF ~conns[c].closed
        THEN {[res |-> "hit", conn |-> c, pool |-> [local_pool EXCEPT ![key] = @ \ {c}]]}
        ELSE {[res |-> o, conn |-> 0, pool |-> [local_pool EXCEPT ![key] = @ \ {c}]] :
                 o \in {"none", "err"}}
        : c \in local_pool[key]}

\* mutant: a backend that is not Local gets an error value instead of the abort
LocalPostgresMiss_ReturnsError(r) ==
    IF auth_backend = "ControlPlane"
    THEN /\ Return(r, CallErr(HttpConnError("AuthError", "", NoInner)))
         /\ UNCHANGED node_info
    ELSE /\ node_info' = [node_info EXCEPT ![r] = Some(LocalNode)]
         /\ rpc' = [rpc EXCEPT ![r] = "lconnect"]
         /\ UNCHANGED rret

\* connect_to_local_postgres, lines 263-268: the node info of the Local backend;
\* any other backend is unreachable!()
LocalPostgresMiss(r) ==
    IF auth_backend = "ControlPlane"
    THEN /\ rpc' = [rpc EXCEPT ![r] = "panicked"]
         /\ UNCHANGED <<node_info, rret>>
    ELSE /\ node_info' = [node_info EXCEPT ![r] = Some(LocalNode)]
         /\ rpc' = [rpc EXCEPT ![r] = "lconnect"]
         /\ UNCHANGED rret

\* connect_to_local_postgres, lines 250-268: the pool lookup and the backend match
LocalPostgresLookup(r) ==
    /\ rpc[r] = "start"
    /\ \E ci \in ConnInfos :
         /\ conn_info' = [conn_info EXCEPT ![r] = Some(ci)]
         /\ mech' = [mech EXCEPT ![r] = "local"]
         /\ \E o \in local_pool_get(ci) :
              /\ local_pool' = o.pool
              /\ \/ /\ o.res = "hit"
                    /\ client' = [client EXCEPT ![r] = Some(o.conn)]
                    /\ Return(r, CallOk(o.conn))
                    /\ UNCHANGED node_info
                 \/ /\ o.res = "err"
                    /\ Return(r, CallErr(HttpConnError("ConnectionClosedAbruptly",
                                                       "", NoInner)))
                    /\ UNCHANGED <<client, node_info>>
                 \/ /\ o.res = "none"
                    /\ LocalPostgresMiss(r)
                    /\ UNCHANGED client
    /\ UNCHANGED <<auth_backend, force_new, wake_log, last_err, num_retries, wake_calls,
                   permit_calls, connect_calls, held_permit, conns, pool, permits>>
    /\ UNCHANGED <<http_pool, session_init, webVars, authVars, clsVars, h2Vars>>

\* connect_to_local_postgres, lines 270-289: connect with the user and dbname of
\* the pool key, install the connection through local_conn_pool::poll_client
LocalPostgresConnect(r) ==
    /\ rpc[r] = "lconnect"
    /\ \/ /\ LET config == ConnectConfig(node_info[r][1], conn_info[r][1])
             IN  conns' = [conns EXCEPT ![r] =
                             [st |-> "open", key |-> conn_info[r][1],
                              user |-> config.user, dbname |-> config.dbname,
                              closed |-> FALSE]]
          /\ client' = [client EXCEPT ![r] = Some(r)]
          /\ rpc' = [rpc EXCEPT ![r] = "linit"]
          /\ UNCHANGED rret
       \/ /\ \E inner \in PgErrors :
               Return(r, CallErr(HttpConnError("PostgresConnectionError", "", inner)))
          /\ UNCHANGED <<conns, client>>
    /\ UNCHANGED <<auth_backend, mech, wake_log, last_err, conn_info, force_new, node_info,
                   num_retries, wake_calls, permit_calls, connect_calls, held_permit, pool,
                   permits>>
    /\ UNCHANGED <<webVars, extVars>>

\* a LocalClient handle is dropped: a reusable connection returns to the local pool
LocalCheckIn(c) ==
    \/ /\ ~conns[c].closed
       /\ local_pool' = [local_pool EXCEPT ![conns[c].key] = @ \cup {c}]
       /\ UNCHANGED conns
    \/ /\ conns' = [conns EXCEPT ![c].closed = TRUE]
       /\ UNCHANGED local_pool

\* connect_to_local_postgres, lines 291-310: select auth.init($1, $2); a failed
\* query returns its error and drops the handle
LocalPostgresInit(r) ==
    /\ rpc[r] = "linit"
    /\ \/ /\ ~conns[r].closed
          /\ session_init' = session_init \cup {r}
          /\ Return(r, CallOk(r))
          /\ UNCHANGED <<client, conns, local_pool>>
       \/ /\ \E inner \in PgErrors :
               Return(r, CallErr(HttpConnError("PostgresConnectionError", "", inner)))
          /\ client' = [client EXCEPT ![r] = None]
          /\ LocalCheckIn(r)
          /\ UNCHANGED session_init
    /\ UNCHANGED <<auth_backend, mech, wake_log, last_err, conn_info, force_new, node_info,
                   num_retries, wake_calls, permit_calls, connect_calls, held_permit, pool,
                   permits>>
    /\ UNCHANGED <<http_pool, webVars, authVars, clsVars, h2Vars>>

\* the session drops its LocalClient
LocalClientDrop(r) ==
    /\ rpc[r] = "done"
    /\ client[r] # None
    /\ mech[client[r][1]] = "local"
    /\ LocalCheckIn(client[r][1])
    /\ client' = [client EXCEPT ![r] = None]
    /\ rpc' = [rpc EXCEPT ![r] = "dropped"]
    /\ UNCHANGED <<auth_backend, mech, wake_log, last_err, conn_info, force_new, node_info,
                   num_retries, wake_calls, permit_calls, connect_calls, held_permit, rret,
                   pool, permits>>
    /\ UNCHANGED <<http_pool, session_init, webVars, authVars, clsVars, h2Vars>>

\* the ended driver task of a local connection removes its entry from the idle set
LocalDriverRemove(c) ==
    /\ conns[c].closed
    /\ mech[c] = "local"
    /\ c \in local_pool[conns[c].key]
    /\ local_pool' = [local_pool EXCEPT ![conns[c].key] = @ \ {c}]
    /\ UNCHANGED <<poolVars, http_pool, session_init, webVars, authVars, clsVars, h2Vars>>

\* ------------------------------------ backend.rs: authenticate_with_password
Users == {"alice", "bob"}
Endpoint == "ep1"

\* ComputeUserInfo
ComputeUserInfo(user) == [user |-> user, endpoint |-> Endpoint, options |-> ""]

\* the secret of a role is represented by the password it verifies
Secrets == {None, Some("pw1")}
Passwords == {"pw1", "pwX"}

\* the inputs of a call and what the auth backend holds for the role: the allowed-IP
\* list, the role's secret and whether get_allowed_ips_and_secret has it cached
PwInputs ==
    [user : Users, password : Passwords, peer : {Peers[1]},
     allowed_ips : {<<Peers[1]>>, <<Peers[2]>>}, secret : Secrets, cached : BOOLEAN]

\* AuthError::auth_failed, AuthError::too_many_connections
auth_failed(user) ==
    [type |-> "AuthError", variant |-> "AuthFailed", user |-> user, reason |-> None]
too_many_connections ==
    [type |-> "AuthError", variant |-> "TooManyConnections"]
\* the errors the ? operators of lines 58, 72, 81 and 95 pass on
get_auth_info_error == [type |-> "AuthError", variant |-> "GetAuthInfo"]
rate_limit_backoff == [type |-> "AuthError", variant |-> "Backoff"]
exchange_error == [type |-> "AuthError", variant |-> "Exchange"]

\* mutant: the SCRAM failure reason travels in the returned error
auth_failed_scram_WithReason(user, reason) ==
    [type |-> "AuthError", variant |-> "AuthFailed", user |-> user,
     reason |-> Some(reason)]

\* lines 101-104: the error built for sasl::Outcome::Failure(reason)
auth_failed_scram(user, reason) == auth_failed(user)

\* crate::auth::validate_password_and_exchange: sasl::Outcome
validate_password_and_exchange(password, secret) ==
    IF password = secret
    THEN [outcome |-> "Success", keys |-> <<"scram-keys", secret>>, reason |-> ""]
    ELSE [outcome |-> "Failure", keys |-> <<>>, reason |-> "password doesn't match"]

ComputeCredentials(info, keys) == [info |-> info, keys |-> keys]

PwPending == [tag |-> "Pending", creds |-> None, error |-> None]
PwOk(creds) == [tag |-> "Ok", creds |-> Some(creds), error |-> None]
PwErr(e) == [tag |-> "Err", creds |-> None, error |-> Some(e)]

\* endpoint_rate_limiter: tokens of an endpoint's bucket
InitAuth ==
    /\ pw_pc = [a \in Reqs |-> "start"]
    /\ pw_in \in [Reqs -> PwInputs]
    /\ pw_trace = [a \in Reqs |-> <<>>]
    /\ pw_log = [a \in Reqs |-> <<>>]
    /\ pw_ret = [a \in Reqs |-> PwPending]
    /\ bucket = [e \in {Endpoint} |-> RateLimitBurst]

\* the password path at rest, for the specifications that do not run it
InitAuthIdle ==
    /\ InitAuth
    /\ pw_in = [a \in Reqs |->
                  [user |-> "alice", password |-> "pw1", peer |-> Peers[1],
                   allowed_ips |-> <<Peers[1]>>, secret |-> None, cached |-> FALSE]]

\* ------------------------------------------- backend.rs: connect_http2, its data
\* most addresses lookup_host yields for one (host, port)
MaxAddrs == 2

\* the timeout argument, in ticks
ConnectTimeout == 1

SocketAddrs == 1..MaxAddrs

Min(a, b) == IF a <= b THEN a ELSE b

\* what lookup_host can yield: addresses in resolution order, none twice
Resolutions ==
    {s \in UNION {[1..n -> SocketAddrs] : n \in 0..MaxAddrs} :
        \A i, j \in 1..Len(s) : i # j => s[i] # s[j]}

\* what TcpStream::connect(addr) would come to, and after how many ticks
TcpFates == [res : {"connected", "refused"}, after : 1..(ConnectTimeout + 1)]

H2Inputs ==
    [lookup_ok : BOOLEAN, resolved : Resolutions, fate : [SocketAddrs -> TcpFates],
     nodelay_ok : BOOLEAN, handshake_ok : BOOLEAN]

\* enum LocalProxyConnError; addr is the address the io::Error came from, 0 if none
LocalProxyConnError(variant, kind, addr, msg) ==
    [variant |-> variant, kind |-> kind, addr |-> addr, msg |-> msg]

\* lines 545-548: the error of an exhausted iterator with no last_err
NoAddresses ==
    LocalProxyConnError("Io", "InvalidInput", 0, "could not resolve any addresses")

H2Pending == [tag |-> "Pending", stream |-> None, error |-> None]
H2Ok(a) == [tag |-> "Ok", stream |-> Some(a), error |-> None]
H2Err(e) == [tag |-> "Err", stream |-> None, error |-> Some(e)]

H2Return(result) ==
    /\ h2_ret' = result
    /\ h2_pc' = "done"

InitHttp2 ==
    /\ h2_in \in H2Inputs
    /\ h2_pc = "lookup"
    /\ addrs = <<>>
    /\ h2_last_err = None
    /\ h2_tried = <<>>
    /\ h2_spent = <<>>
    /\ stream = None
    /\ h2_shaken = <<>>
    /\ h2_ret = H2Pending

\* no connect_http2 call is modelled
InitHttp2Idle ==
    /\ h2_in = [lookup_ok |-> FALSE, resolved |-> <<>>,
                fate |-> [a \in SocketAddrs |-> [res |-> "refused", after |-> 1]],
                nodelay_ok |-> FALSE, handshake_ok |-> FALSE]
    /\ h2_pc = "idle"
    /\ addrs = <<>>
    /\ h2_last_err = None
    /\ h2_tried = <<>>
    /\ h2_spent = <<>>
    /\ stream = None
    /\ h2_shaken = <<>>
    /\ h2_ret = H2Pending

InitLocalPools ==
    /\ http_pool = [k \in ConnInfos |-> {}]
    /\ local_pool = [k \in ConnInfos |-> {}]
    /\ session_init = {}

InitCls ==
    /\ cls_err = [r \in Reqs |-> None]
    /\ cls_out = [r \in Reqs |-> None]

InitExt == InitLocalPools /\ InitAuthIdle /\ InitCls /\ InitHttp2Idle

PwReturn(a, result) ==
    /\ pw_ret' = [pw_ret EXCEPT ![a] = result]
    /\ pw_pc' = [pw_pc EXCEPT ![a] = "done"]

\* authenticate_with_password, lines 75-87: a role without a secret fails with
\* AuthFailed; a secret goes through check_rate_limit on its way to the exchange
PwSecretCheck(a, value, trace, limited) ==
    IF value = None
    THEN /\ pw_trace' = [pw_trace EXCEPT ![a] = trace]
         /\ pw_log' = [pw_log EXCEPT ![a] = Append(@, <<"authentication info not found">>)]
         /\ PwReturn(a, PwErr(auth_failed(pw_in[a].user)))
    ELSE /\ pw_trace' = [pw_trace EXCEPT ![a] = Append(trace, "check_rate_limit")]
         /\ UNCHANGED pw_log
         /\ IF limited
            THEN PwReturn(a, PwErr(rate_limit_backoff))
            ELSE /\ pw_pc' = [pw_pc EXCEPT ![a] = "scram"]
                 /\ UNCHANGED pw_ret

\* mutant: the endpoint rate limiter is consulted before the allow-list
PwFetch_LimiterFirst(a) ==
    /\ pw_pc[a] = "start"
    /\ LET in == pw_in[a]
           t1 == <<"get_allowed_ips_and_secret", "endpoint_rate_limiter">>
       IN  IF bucket[Endpoint] = 0
           THEN /\ pw_trace' = [pw_trace EXCEPT ![a] = t1]
                /\ PwReturn(a, PwErr(too_many_connections))
                /\ UNCHANGED <<pw_log, bucket>>
           ELSE /\ bucket' = [bucket EXCEPT ![Endpoint] = @ - 1]
                /\ IF ip_allowlist_check_enabled
                      /\ ~check_peer_addr_is_in_list(in.peer, in.allowed_ips)
                   THEN /\ pw_trace' = [pw_trace EXCEPT ![a] =
                                           Append(t1, "check_peer_addr_is_in_list")]
                        /\ PwReturn(a, PwErr(ip_address_not_allowed(in.peer)))
                        /\ UNCHANGED pw_log
                   ELSE /\ pw_pc' = [pw_pc EXCEPT ![a] = "role_secret"]
                        /\ pw_trace' = [pw_trace EXCEPT ![a] = t1]
                        /\ UNCHANGED <<pw_ret, pw_log>>
    /\ UNCHANGED pw_in
    /\ UNCHANGED <<webVars, poolVars, lpoolVars, clsVars, h2Vars>>

\* authenticate_with_password, lines 56-72: allowed IPs and cached secret, the
\* allow-list, the endpoint rate limiter, and the cached secret if there is one
PwFetch(a) ==
    /\ pw_pc[a] = "start"
    /\ LET in == pw_in[a]
           t1 == <<"get_allowed_ips_and_secret">>
           rejected == /\ ip_allowlist_check_enabled
                       /\ ~check_peer_addr_is_in_list(in.peer, in.allowed_ips)
           t2 == IF ip_allowlist_check_enabled
                 THEN Append(t1, "check_peer_addr_is_in_list") ELSE t1
           t3 == Append(t2, "endpoint_rate_limiter")
       IN  \/ /\ pw_trace' = [pw_trace EXCEPT ![a] = t1]
              /\ PwReturn(a, PwErr(get_auth_info_error))
              /\ UNCHANGED <<pw_log, bucket>>
           \/ /\ rejected
              /\ pw_trace' = [pw_trace EXCEPT ![a] = t2]
              /\ PwReturn(a, PwErr(ip_address_not_allowed(in.peer)))
              /\ UNCHANGED <<pw_log, bucket>>
           \/ /\ ~rejected
              /\ bucket[Endpoint] = 0
              /\ pw_trace' = [pw_trace EXCEPT ![a] = t3]
              /\ PwReturn(a, PwErr(too_many_connections))
              /\ UNCHANGED <<pw_log, bucket>>
           \/ /\ ~rejected
              /\ bucket[Endpoint] > 0
              /\ bucket' = [bucket EXCEPT ![Endpoint] = @ - 1]
              /\ IF in.cached
                 THEN \E limited \in BOOLEAN : PwSecretCheck(a, in.secret, t3, limited)
                 ELSE /\ pw_pc' = [pw_pc EXCEPT ![a] = "role_secret"]
                      /\ pw_trace' = [pw_trace EXCEPT ![a] = t3]
                      /\ UNCHANGED <<pw_ret, pw_log>>
    /\ UNCHANGED pw_in
    /\ UNCHANGED <<webVars, poolVars, lpoolVars, clsVars, h2Vars>>

\* authenticate_with_password, lines 72-87: the role's secret is fetched
PwRoleSecret(a) ==
    /\ pw_pc[a] = "role_secret"
    /\ LET t4 == Append(pw_trace[a], "get_role_secret")
       IN  \/ /\ pw_trace' = [pw_trace EXCEPT ![a] = t4]
              /\ PwReturn(a, PwErr(get_auth_info_error))
              /\ UNCHANGED pw_log
           \/ \E limited \in BOOLEAN : PwSecretCheck(a, pw_in[a].secret, t4, limited)
    /\ UNCHANGED <<pw_in, bucket>>
    /\ UNCHANGED <<webVars, poolVars, lpoolVars, clsVars, h2Vars>>

\* authenticate_with_password, lines 88-109: the SCRAM exchange and its outcome
PwScram(a) ==
    /\ pw_pc[a] = "scram"
    /\ pw_trace' = [pw_trace EXCEPT ![a] = Append(@, "validate_password_and_exchange")]
    /\ LET in == pw_in[a]
           auth_outcome == validate_password_and_exchange(in.password, in.secret[1])
       IN  \/ /\ PwReturn(a, PwErr(exchange_error))
              /\ UNCHANGED pw_log
           \/ /\ auth_outcome.outcome = "Success"
              /\ pw_log' = [pw_log EXCEPT ![a] =
                               Append(@, <<"user successfully authenticated">>)]
              /\ PwReturn(a, PwOk(ComputeCredentials(ComputeUserInfo(in.user),
                                                    auth_outcome.keys)))
           \/ /\ auth_outcome.outcome = "Failure"
              /\ pw_log' = [pw_log EXCEPT ![a] =
                               Append(@, <<"auth backend failed with an error",
                                           auth_outcome.reason>>)]
              /\ PwReturn(a, PwErr(auth_failed_scram(in.user, auth_outcome.reason)))
    /\ UNCHANGED <<pw_in, bucket>>
    /\ UNCHANGED <<webVars, poolVars, lpoolVars, clsVars, h2Vars>>

\* endpoint_rate_limiter: the token bucket of an endpoint refills with time
RateLimiterRefill(e) ==
    /\ bucket[e] < RateLimitBurst
    /\ bucket' = [bucket EXCEPT ![e] = @ + 1]
    /\ UNCHANGED <<pw_pc, pw_in, pw_trace, pw_log, pw_ret>>
    /\ UNCHANGED <<webVars, poolVars, lpoolVars, clsVars, h2Vars>>

InitAuthSpec ==
    InitWeb /\ InitPool /\ InitLocalPools /\ InitCls /\ InitHttp2Idle /\ InitAuth
    /\ auth_backend = "ControlPlane"

NextAuth ==
    \/ \E a \in Reqs : PwFetch(a)
    \/ \E a \in Reqs : PwRoleSecret(a)
    \/ \E a \in Reqs : PwScram(a)
    \/ \E e \in {Endpoint} : RateLimiterRefill(e)

SpecAuth == InitAuthSpec /\ [][NextAuth]_vars

\* ------------------------------------------- backend.rs: retry predicates
\* every HttpConnError the predicates can be asked about
HttpConnErrors ==
    {HttpConnError("PostgresConnectionError", "", inner) : inner \in PgErrors}
    \cup {HttpConnError("LocalProxyConnectionError", l, NoInner) : l \in {"Io", "H2"}}
    \cup {HttpConnError(v, "", NoInner) :
            v \in {"ConnectionClosedAbruptly", "JwtPayloadError", "GetAuthInfo",
                   "AuthError", "WakeCompute", "TooManyConnectionAttempts"}}

\* a caller holds an error
ClsRaise(r) ==
    /\ cls_err[r] = None
    /\ \E e \in HttpConnErrors : cls_err' = [cls_err EXCEPT ![r] = Some(e)]
    /\ UNCHANGED cls_out
    /\ UNCHANGED <<webVars, poolVars, lpoolVars, authVars, h2Vars>>

\* the caller asks both predicates
ClsClassify(r) ==
    /\ cls_err[r] # None
    /\ cls_out[r] = None
    /\ cls_out' = [cls_out EXCEPT ![r] =
                      Some([could_retry |-> could_retry(cls_err[r][1]),
                            should_retry_wake_compute |->
                                should_retry_wake_compute(cls_err[r][1])])]
    /\ UNCHANGED cls_err
    /\ UNCHANGED <<webVars, poolVars, lpoolVars, authVars, h2Vars>>

InitClsSpec ==
    InitWeb /\ InitPool /\ InitExt /\ auth_backend = "ControlPlane"
    /\ ip_allowlist_check_enabled

NextCls ==
    \/ \E r \in Reqs : ClsRaise(r)
    \/ \E r \in Reqs : ClsClassify(r)

SpecCls == InitClsSpec /\ [][NextCls]_vars

\* --------------------------------- backend.rs: connect_http2, the call
\* connect_http2, lines 538-540: lookup_host((host, port)), its error mapped to Io
Http2Lookup ==
    /\ h2_pc = "lookup"
    /\ IF h2_in.lookup_ok
       THEN /\ addrs' = h2_in.resolved
            /\ h2_pc' = "loop"
            /\ UNCHANGED h2_ret
       ELSE /\ H2Return(H2Err(LocalProxyConnError("Io", "Lookup", 0, "")))
            /\ UNCHANGED addrs
    /\ UNCHANGED <<h2_in, h2_last_err, h2_tried, h2_spent, stream, h2_shaken>>
    /\ UNCHANGED <<webVars, poolVars, lpoolVars, authVars, clsVars>>

\* mutant: the error of the first failed address is kept
Http2Connect_KeepsFirstError ==
    /\ h2_pc = "loop"
    /\ IF addrs = <<>>
       THEN /\ H2Return(H2Err(IF h2_last_err # None THEN h2_last_err[1] ELSE NoAddresses))
            /\ UNCHANGED <<addrs, h2_last_err, h2_tried, h2_spent, stream>>
       ELSE LET addr == Head(addrs)
                fate == h2_in.fate[addr]
                keep(e) == IF h2_last_err # None THEN h2_last_err ELSE Some(e)
            IN  /\ addrs' = Tail(addrs)
                /\ h2_tried' = Append(h2_tried, addr)
                /\ h2_spent' = Append(h2_spent, Min(fate.after, ConnectTimeout))
                /\ CASE fate.after > ConnectTimeout ->
                          /\ h2_last_err' =
                                 keep(LocalProxyConnError("Io", "TimedOut", addr, ""))
                          /\ UNCHANGED <<h2_pc, stream, h2_ret>>
                     [] fate.after <= ConnectTimeout /\ fate.res = "refused" ->
                          /\ h2_last_err' =
                                 keep(LocalProxyConnError("Io", "Os", addr, ""))
                          /\ UNCHANGED <<h2_pc, stream, h2_ret>>
                     [] fate.after <= ConnectTimeout /\ fate.res = "connected" ->
                          IF h2_in.nodelay_ok
                          THEN /\ stream' = Some(addr)
                               /\ h2_pc' = "handshake"
                               /\ UNCHANGED <<h2_last_err, h2_ret>>
                          ELSE /\ H2Return(H2Err(LocalProxyConnError("Io", "NoDelay",
                                                                     addr, "")))
                               /\ UNCHANGED <<h2_last_err, stream>>
    /\ UNCHANGED <<h2_in, h2_shaken>>
    /\ UNCHANGED <<webVars, poolVars, lpoolVars, authVars, clsVars>>

\* connect_http2, lines 544-569: one turn of the loop. The iterator is exhausted:
\* return last_err, or the InvalidInput error when there is none. Otherwise take
\* the next address and await TcpStream::connect under tokio::time::timeout.
Http2Connect ==
    /\ h2_pc = "loop"
    /\ IF addrs = <<>>
       THEN /\ H2Return(H2Err(IF h2_last_err # None THEN h2_last_err[1] ELSE NoAddresses))
            /\ UNCHANGED <<addrs, h2_last_err, h2_tried, h2_spent, stream>>
       ELSE LET addr == Head(addrs)
                fate == h2_in.fate[addr]
            IN  /\ addrs' = Tail(addrs)
                /\ h2_tried' = Append(h2_tried, addr)
                /\ h2_spent' = Append(h2_spent, Min(fate.after, ConnectTimeout))
                /\ CASE fate.after > ConnectTimeout ->
                          /\ h2_last_err' =
                                 Some(LocalProxyConnError("Io", "TimedOut", addr, ""))
                          /\ UNCHANGED <<h2_pc, stream, h2_ret>>
                     [] fate.after <= ConnectTimeout /\ fate.res = "refused" ->
                          /\ h2_last_err' =
                                 Some(LocalProxyConnError("Io", "Os", addr, ""))
                          /\ UNCHANGED <<h2_pc, stream, h2_ret>>
                     [] fate.after <= ConnectTimeout /\ fate.res = "connected" ->
                          IF h2_in.nodelay_ok
                          THEN /\ stream' = Some(addr)
                               /\ h2_pc' = "handshake"
                               /\ UNCHANGED <<h2_last_err, h2_ret>>
                          ELSE /\ H2Return(H2Err(LocalProxyConnError("Io", "NoDelay",
                                                                     addr, "")))
                               /\ UNCHANGED <<h2_last_err, stream>>
    /\ UNCHANGED <<h2_in, h2_shaken>>
    /\ UNCHANGED <<webVars, poolVars, lpoolVars, authVars, clsVars>>

\* connect_http2, lines 571-579: the HTTP/2 handshake on the connected stream
Http2Handshake ==
    /\ h2_pc = "handshake"
    /\ h2_shaken' = Append(h2_shaken, stream[1])
    /\ IF h2_in.handshake_ok
       THEN H2Return(H2Ok(stream[1]))
       ELSE H2Return(H2Err(LocalProxyConnError("H2", "", 0, "")))
    /\ UNCHANGED <<h2_in, addrs, h2_last_err, h2_tried, h2_spent, stream>>
    /\ UNCHANGED <<webVars, poolVars, lpoolVars, authVars, clsVars>>

InitHttp2Spec ==
    InitWeb /\ InitPool /\ InitLocalPools /\ InitAuthIdle /\ InitCls /\ InitHttp2
    /\ auth_backend = "ControlPlane"
    /\ ip_allowlist_check_enabled

NextHttp2 ==
    \/ Http2Lookup
    \/ Http2Connect
    \/ Http2Handshake

SpecHttp2 == InitHttp2Spec /\ [][NextHttp2]_vars

Init == InitWeb /\ InitPool /\ InitExt /\ auth_backend = "ControlPlane"

InitPoolSpec == InitWeb /\ InitPool /\ InitExt /\ ip_allowlist_check_enabled

NextDispatch ==
    \/ \E r \in Reqs : CtcLookup(r)
    \/ \E r \in Reqs : LpLookup(r)
    \/ \E r \in Reqs : LocalPostgresLookup(r)
    \/ \E r \in Reqs : WakeCompute(r)
    \/ \E r \in Reqs : ConnectOnceAcquire(r)
    \/ \E r \in Reqs : ConnectOnceFinish(r)
    \/ \E r \in Reqs : HyperConnectOnceAcquire(r)
    \/ \E r \in Reqs : HyperConnectOnceFinish(r)
    \/ \E r \in Reqs : LocalPostgresConnect(r)
    \/ \E r \in Reqs : LocalPostgresInit(r)
    \/ \E r \in Reqs : CtcCancel(r)
    \/ \E r \in Reqs : ClientDrop(r)
    \/ \E r \in Reqs : HttpClientDrop(r)
    \/ \E r \in Reqs : LocalClientDrop(r)
    \/ \E c \in Reqs : DriverFail(c)
    \/ \E c \in Reqs : DriverRemove(c)
    \/ \E c \in Reqs : HttpDriverRemove(c)
    \/ \E c \in Reqs : LocalDriverRemove(c)

SpecDispatch == InitPoolSpec /\ [][NextDispatch]_vars

NextPool ==
    \/ \E r \in Reqs : CtcLookup(r)
    \/ \E r \in Reqs : WakeCompute(r)
    \/ \E r \in Reqs : ConnectOnceAcquire(r)
    \/ \E r \in Reqs : ConnectOnceFinish(r)
    \/ \E r \in Reqs : CtcCancel(r)
    \/ \E r \in Reqs : ClientDrop(r)
    \/ \E c \in Reqs : DriverFail(c)
    \/ \E c \in Reqs : DriverRemove(c)

SpecPool == InitPoolSpec /\ [][NextPool]_vars


NextWeb ==
    \/ \E s \in Sessions : MintAndRegister(s)
    \/ \E s \in Sessions : SendGreeting(s)
    \/ \E s \in Sessions : FlushGreeting(s)
    \/ \E s \in Sessions : Tick(s)
    \/ \E s \in Sessions : AwaitWaiter(s)
    \/ \E s \in Sessions : Cancel(s)
    \/ \E id \in SessionIds, info \in DbInfos : Notify(id, info)
    \/ \E id \in SessionIds : DropSlot(id)

Spec == Init /\ [][NextWeb]_vars

\* ======================================================= claims C1 - C9
IsPrefix(a, b) == Len(a) <= Len(b) /\ SubSeq(b, 1, Len(a)) = a

Registered(s) == pc[s] \in {"greet", "flush", "wait"}
Ended(s) == pc[s] \in {"done", "cancelled"}
Returned(s) == pc[s] = "done"
SlotOf(s) == registry[waiter[s][1]]

\* the five writes of a successful run, built from the id the session registered
ExpectedWrites(s) ==
    <<[msg |-> "AuthenticationOk", body |-> <<>>],
      [msg |-> "ParameterStatus", body |-> <<"client_encoding", "UTF8">>],
      [msg |-> "NoticeResponse",
       body |-> <<"Welcome to Neon!\n", "Authenticate by visiting:\n", "    ">>
                    \o console_uri \o psql_session_id[s][1] \o <<"\n\n">>],
      [msg |-> "Flush", body |-> <<>>],
      [msg |-> "NoticeResponse", body |-> <<"Connecting to database.">>]>>

\* some place in text where the uri is immediately followed by the id
UriThenId(text, id) ==
    \E i \in 1..Len(text) :
        /\ i + Len(console_uri) + Len(id) - 1 <= Len(text)
        /\ \A j \in 1..Len(console_uri) : text[i + j - 1] = console_uri[j]
        /\ \A j \in 1..Len(id) : text[i + Len(console_uri) + j - 1] = id[j]

C1_State ==
    \A s \in Sessions :
        /\ psql_session_id[s] = None => out[s] = <<>>
        /\ psql_session_id[s] # None => IsPrefix(out[s], ExpectedWrites(s))
        /\ pc[s] = "wait" => out[s] = SubSeq(ExpectedWrites(s), 1, 4)
        /\ ret[s].tag = "Ok" =>
              /\ out[s] = ExpectedWrites(s)
              /\ Len(psql_session_id[s][1]) = 2 * IdBytes
              /\ UriThenId(out[s][3].body, psql_session_id[s][1])
        /\ Registered(s) => waiter[s] = psql_session_id[s]

C1_Step ==
    \A s \in Sessions :
        (Len(out'[s]) = 5 /\ Len(out[s]) < 5) =>
            /\ pc[s] = "wait"
            /\ Len(out[s]) = 4
            /\ SlotOf(s).st = "resolved"

\* C1: a run of authenticate that returns a NodeInfo has written exactly
\* AuthenticationOk, ParameterStatus(client_encoding=UTF8), NoticeResponse(greeting),
\* a flush and then NoticeResponse("Connecting to database."), in this order; the
\* first three and the flush precede the wait, the last is written only once the
\* waiter has resolved, and the greeting holds the redirect uri immediately
\* followed by the session id registered for the session.
C1_HandshakeOrder == [](C1_State) /\ [][C1_Step]_vars

C1_Witness ==
    \E s \in Sessions : ret[s].tag = "Ok" /\ Len(out[s]) = 5 /\ collisions[s] > 0

C2_State ==
    \A s \in Sessions :
        /\ (ret[s].error # None /\ ret[s].error[1].variant = "ConfirmationTimeout") =>
              /\ ret[s].error[1].duration = WebauthConfirmationTimeout
              /\ ret[s].node = None
              /\ out[s] = SubSeq(ExpectedWrites(s), 1, 4)
              /\ db_info[s] = None
        /\ (pc[s] = "wait" /\ clock[s] >= WebauthConfirmationTimeout) =>
              ENABLED AwaitWaiter(s)

C2_Step ==
    \A s \in Sessions :
        (pc[s] = "wait" /\ pc'[s] = "done" /\ SlotOf(s).st = "pending") =>
            /\ clock[s] = WebauthConfirmationTimeout
            /\ ret'[s] = Err(confirmation_timeout(WebauthConfirmationTimeout))
            /\ out'[s] = out[s]

PeerOutsideList(s) ==
    /\ db_info[s] # None
    /\ db_info[s][1].allowed_ips # None
    /\ \A i \in 1..Len(db_info[s][1].allowed_ips[1]) :
          db_info[s][1].allowed_ips[1][i] # peer_addr[s]

RejectedByIp(s) ==
    /\ ret[s].tag = "Err"
    /\ ret[s].error[1].variant = "IpAddressNotAllowed"
    /\ ret[s].error[1].peer = peer_addr[s]
    /\ ret[s].node = None

\* C3 as stated: an allow-list that is present and lacks the peer always rejects.
C3_Original ==
    \A s \in Sessions : (Returned(s) /\ PeerOutsideList(s)) => RejectedByIp(s)

\* C3: with ip_allowlist_check_enabled set, a session whose wait yielded a
\* DatabaseInfo with allowed_ips present and the peer address outside the list
\* fails with IpAddressNotAllowed(peer) and builds no NodeInfo.
C3_IpNotAllowed ==
    \A s \in Sessions :
        (Returned(s) /\ PeerOutsideList(s) /\ ip_allowlist_check_enabled) =>
            /\ RejectedByIp(s)
            /\ Len(out[s]) = 4

C3_Witness ==
    \E s \in Sessions :
        /\ ip_allowlist_check_enabled
        /\ PeerOutsideList(s)
        /\ Len(db_info[s][1].allowed_ips[1]) > 0
        /\ RejectedByIp(s)

C4_State ==
    /\ \A s, t \in Sessions :
          (s # t /\ waiter[s] # None /\ waiter[t] # None) => waiter[s] # waiter[t]
    /\ \A s \in Sessions : waiter[s] # None => SlotOf(s).st # "absent"

C4_Step ==
    \A s \in Sessions :
        collisions'[s] > collisions[s] =>
            /\ registry' = registry
            /\ waiter' = waiter
            /\ \E id \in SessionIds : registry[id].st # "absent"

\* C4: no two sessions hold a waiter for the same session id at the same time, a
\* held id is present in the registry, and a registration that collides leaves
\* every slot and every consumer as it was.
C4_UniqueIds == [](C4_State) /\ [][C4_Step]_vars

C4_Witness ==
    \E s, t \in Sessions :
        /\ s # t
        /\ collisions[s] > 0
        /\ waiter[s] # None
        /\ waiter[t] # None

C5_State ==
    \A s \in Sessions :
        /\ ret[s].error # None => ret[s].error[1].variant # "WaiterRegister"
        /\ out[s] # <<>> => psql_session_id[s] # None
        /\ psql_session_id[s] = None => (pc[s] = "register" /\ ret[s] = Pending)
        /\ Len(out[s]) >= 3 =>
              out[s][3].body = hello_message(console_uri, psql_session_id[s][1])
        /\ pc[s] \in {"flush", "wait"} =>
              /\ waiter[s] = psql_session_id[s]
              /\ SlotOf(s).st # "absent"
              /\ \A t \in Sessions : t # s => waiter[t] # waiter[s]

C5_Step ==
    \A s \in Sessions :
        /\ collisions'[s] > collisions[s] =>
              (pc'[s] = "register" /\ ret'[s] = Pending /\ out'[s] = <<>>)
        /\ psql_session_id'[s] # psql_session_id[s] =>
              /\ registry[psql_session_id'[s][1]].st = "absent"
              /\ registry'[psql_session_id'[s][1]].st = "pending"
              /\ waiter'[s] = psql_session_id'[s]

\* C5: a registration collision is retried with a newly minted id and is never
\* returned as an error; nothing is written before a registration succeeded, and
\* the id disclosed in the greeting is the one this session registered itself, whose
\* slot is present and held by no other session while the session waits.
C5_RemintOnCollision == [](C5_State) /\ [][C5_Step]_vars

C5_Witness ==
    \E s \in Sessions : collisions[s] > 0 /\ pc[s] = "wait" /\ Len(out[s]) = 4

C6_State ==
    \A s \in Sessions :
        /\ ret[s].tag = "Ok" =>
              (db_info[s] # None /\ ret[s].node = Some(BuildNodeInfo(db_info[s][1])))
        /\ (pc[s] = "wait" /\ SlotOf(s).st = "resolved") => ENABLED AwaitWaiter(s)

C6_Step ==
    /\ \A id \in SessionIds, info \in DbInfos :
          (Notify(id, info) /\ registry[id].st = "pending"
              /\ \E s \in Sessions : waiter[s] = Some(id)) =>
                /\ registry'[id] = [st |-> "resolved", info |-> Some(info)]
                /\ \A other \in SessionIds \ {id} : registry'[other] = registry[other]
                /\ lastNotify' = Some("Ok")
                /\ db_info' = db_info
    /\ \A s \in Sessions :
          /\ db_info'[s] # db_info[s] =>
                (pc[s] = "wait" /\ db_info'[s] = SlotOf(s).info /\ db_info[s] = None)
          /\ (pc[s] = "wait" /\ pc'[s] = "done" /\ SlotOf(s).st = "resolved") =>
                db_info'[s] = SlotOf(s).info

\* C6: a callback for the id of a session that still holds its pending waiter
\* resolves that session's slot with the notified payload and touches no other
\* slot, also before the session has begun to wait; a session whose slot is
\* resolved leaves the wait with exactly that payload, and the NodeInfo it returns
\* is built from it.
C6_PointToPoint == [](C6_State) /\ [][C6_Step]_vars

C6_Witness ==
    \E s, t \in Sessions :
        /\ s # t
        /\ ret[s].tag = "Ok"
        /\ clock[s] = 0
        /\ pc[t] = "wait"
        /\ SlotOf(t).st = "resolved"
        /\ SlotOf(t).info # db_info[s]

C7_State ==
    /\ {id \in SessionIds : registry[id].st # "absent"} =
          {psql_session_id[s][1] : s \in {x \in Sessions : Registered(x)}}
    /\ \A s \in Sessions : Ended(s) => waiter[s] = None
    /\ \A id \in SessionIds :
          (\A s \in Sessions : Registered(s) => psql_session_id[s] # Some(id)) =>
              get_waiter(registry, id).ok

C7_Step ==
    /\ \A id \in SessionIds, info \in DbInfos :
          (Notify(id, info) /\ \A s \in Sessions : ~(Registered(s) /\ waiter[s] = Some(id))) =>
              (lastNotify' = Some("Unknown") /\ registry' = registry)
    /\ \A s \in Sessions :
          (~Ended(s) /\ Ended(s)') =>
              (waiter[s] # None => registry'[waiter[s][1]].st = "absent")

\* C7: the registry holds exactly the ids of the sessions between a successful
\* registration and the end of authenticate: however authenticate ends (success,
\* timeout, waiter failure, client I/O error, cancellation) its slot is removed, a
\* later callback for that id is answered as unknown, and the id can be registered
\* again.
C7_NoSlotLeak == [](C7_State) /\ [][C7_Step]_vars

C7_Witness ==
    \E s, t \in Sessions :
        /\ s # t
        /\ Ended(s)
        /\ psql_session_id[s] # None
        /\ pc[t] = "wait"
        /\ psql_session_id[t] = psql_session_id[s]
        /\ lastNotify = Some("Unknown")

C8_State ==
    \A s \in Sessions :
        /\ (ret[s].error # None /\ ret[s].error[1].variant = "WaiterWait") =>
              /\ ret[s].error[1].type = "WebAuthError"
              /\ get_error_kind(ret[s].error[1]) = "Service"
              /\ to_string_client(ret[s].error[1]) = "Internal error"
              /\ ret[s].node = None
              /\ Len(out[s]) = 4
        /\ (ret[s].error # None /\ ret[s].error[1].variant = "Io") =>
              get_error_kind(ret[s].error[1]) = "ClientDisconnect"
        /\ (pc[s] = "wait" /\ SlotOf(s).st = "cancelled") => ENABLED AwaitWaiter(s)

C8_Step ==
    \A s \in Sessions :
        /\ (pc[s] = "wait" /\ pc'[s] = "done" /\ SlotOf(s).st = "cancelled") =>
              /\ ret'[s].error # None
              /\ ret'[s].error[1].variant = "WaiterWait"
              /\ out'[s] = out[s]
              /\ clock'[s] = clock[s]
        /\ (pc[s] \in {"greet", "flush"} /\ pc'[s] = "done") =>
              /\ ret'[s].error # None
              /\ ret'[s].error[1].variant = "Io"
              /\ ret'[s].node = None

\* C8: a waiter that fails before the deadline ends authenticate with
\* WebAuthError::WaiterWait, of kind Service and client message "Internal error",
\* without waiting for the deadline, without the "Connecting to database." notice
\* and without a NodeInfo; a client stream that breaks while the greeting is sent
\* ends it with an Io error of kind ClientDisconnect.
C8_WaiterFailure == [](C8_State) /\ [][C8_Step]_vars

C8_Witness ==
    \E s, t \in Sessions :
        /\ ret[s].error # None
        /\ ret[s].error[1].variant = "WaiterWait"
        /\ clock[s] < WebauthConfirmationTimeout
        /\ ret[t].error # None
        /\ ret[t].error[1].variant = "Io"
        /\ Len(out[t]) = 3

HasDoubleDash(host) ==
    \E i \in 1..(Len(host) - 1) : host[i] = "-" /\ host[i + 1] = "-"

\* C9: the NodeInfo of a successful run is determined by the delivered
\* DatabaseInfo alone: host, port, dbname and user are its fields, a password is
\* set exactly when it has one, ssl_mode is Require exactly when the host contains
\* "--" and Disable otherwise, aux is its aux, allow_self_signed_compute is false.
C9_NodeInfoFromDbInfo ==
    \A s \in Sessions :
        ret[s].tag = "Ok" =>
            LET n == ret[s].node[1]
                d == db_info[s][1]
            IN  /\ n.config.host = Some(d.host)
                /\ n.config.port = Some(d.port)
                /\ n.config.dbname = Some(d.dbname)
                /\ n.config.user = Some(d.user)
                /\ n.config.password = d.password
                /\ (n.config.password # None) <=> (d.password # None)
                /\ (n.config.ssl_mode = "Require") <=> HasDoubleDash(d.host)
                /\ (n.config.ssl_mode = "Disable") <=> ~HasDoubleDash(d.host)
                /\ n.aux = d.aux
                /\ n.allow_self_signed_compute = FALSE
                /\ ctx[s].user = Some(d.user)
                /\ ctx[s].dbname = Some(d.dbname)

C9_Witness ==
    \E s, t \in Sessions :
        /\ ret[s].tag = "Ok"
        /\ ret[s].node[1].config.user # Some(startup[s].user)
        /\ ret[s].node[1].config.ssl_mode = "Disable"
        /\ ret[s].node[1].config.password # None
        /\ ret[t].tag = "Ok"
        /\ ret[t].node[1].config.ssl_mode = "Require"

\* ================================================================ claim C10
\* the idle entries under a key, all with a live driver
LiveIdle(key) == pool[key] # {} /\ \A c \in pool[key] : ~conns[c].closed

C10_Step ==
    \A r \in Reqs :
        (rpc[r] = "start" /\ rpc'[r] # "start") =>
            LET key == conn_info'[r][1]
            IN  /\ (~force_new'[r] /\ LiveIdle(key)) =>
                      /\ rpc'[r] = "done"
                      /\ rret'[r].tag = "Ok"
                      /\ rret'[r].conn = client'[r]
                      /\ client'[r][1] \in pool[key]
                      /\ client'[r][1] \notin pool'[key]
                      /\ conns[client'[r][1]].key = key
                      /\ wake_calls'[r] = 0
                      /\ permit_calls'[r] = 0
                      /\ connect_calls'[r] = 0
                      /\ permits' = permits
                      /\ held_permit'[r] = None
                /\ force_new'[r] =>
                      /\ pool' = pool
                      /\ conns' = conns
                      /\ client'[r] = None
                      /\ rpc'[r] = "wake"

C10_State ==
    \A r \in Reqs :
        /\ (rret[r].tag = "Ok" /\ force_new[r]) =>
              /\ rret[r].conn = Some(r)
              /\ wake_calls[r] >= 1
              /\ permit_calls[r] >= 1
              /\ connect_calls[r] >= 1
        /\ (rret[r].tag = "Ok" /\ rret[r].conn # Some(r)) =>
              /\ ~force_new[r]
              /\ wake_calls[r] = 0
              /\ permit_calls[r] = 0
              /\ connect_calls[r] = 0

\* C10: connect_to_compute called with force_new = false while the native pool
\* holds idle entries for its ConnInfo returns one of them, with no wake_compute, no
\* per-host permit and no connect_once; called with force_new = true it leaves the
\* pool alone and a connection it returns is one it opened itself.
C10_PoolHit == [](C10_State) /\ [][C10_Step]_vars

C10_Witness ==
    \E r, q \in Reqs :
        /\ r # q
        /\ rret[r] = CallOk(q)
        /\ ~force_new[r]
        /\ connect_calls[r] = 0
        /\ wake_calls[q] >= 1
        /\ conn_info[r] = conn_info[q]

\* a fresh connection opened with force_new while an idle entry is in the pool
C10_ForceNewSeen ==
    \E r \in Reqs :
        /\ force_new[r]
        /\ rret[r] = CallOk(r)
        /\ \E c \in pool[conn_info[r][1]] : c # r

\* the retry columns of the error taxonomy: could_retry, should_retry_wake
RetryTable(e) ==
    CASE e.variant = "AuthError" ->
            [could_retry |-> FALSE, should_retry_wake_compute |-> FALSE]
      [] e.variant = "TooManyConnectionAttempts" ->
            [could_retry |-> FALSE, should_retry_wake_compute |-> FALSE]
      [] e.variant = "PostgresConnectionError" ->
            [could_retry |-> e.inner.could_retry,
             should_retry_wake_compute |-> e.inner.should_retry_wake_compute]
      [] e.variant = "LocalProxyConnectionError" ->
            [could_retry |-> FALSE, should_retry_wake_compute |-> TRUE]
      [] e.variant = "ConnectionClosedAbruptly" ->
            [could_retry |-> FALSE, should_retry_wake_compute |-> TRUE]
      [] e.variant = "JwtPayloadError" ->
            [could_retry |-> FALSE, should_retry_wake_compute |-> FALSE]
      [] e.variant = "WakeCompute" ->
            [could_retry |-> FALSE, should_retry_wake_compute |-> FALSE]

InRetryTable(e) == e.variant # "GetAuthInfo"

\* C15: for every HttpConnError variant of the taxonomy, the answers of could_retry
\* and should_retry_wake_compute are the ones the table gives for that variant.
C15_RetryTable ==
    \A r \in Reqs :
        (cls_out[r] # None /\ InRetryTable(cls_err[r][1])) =>
            cls_out[r][1] = RetryTable(cls_err[r][1])

\* the could_retry column alone, and the rows where both columns agree with the code
C15_CouldRetryColumn ==
    \A r \in Reqs :
        (cls_out[r] # None /\ InRetryTable(cls_err[r][1])) =>
            /\ cls_out[r][1].could_retry = RetryTable(cls_err[r][1]).could_retry
            /\ cls_err[r][1].variant \notin {"AuthError", "JwtPayloadError", "WakeCompute"}
                  => cls_out[r][1] = RetryTable(cls_err[r][1])

C15_Classified ==
    \E r \in Reqs :
        /\ cls_out[r] # None
        /\ cls_err[r][1].variant = "AuthError"
        /\ cls_out[r][1].should_retry_wake_compute

\* ---- authenticate_with_password
PwDone(a) == pw_pc[a] = "done"

PwFailedWith(a, variant) ==
    /\ pw_ret[a].tag = "Err"
    /\ pw_ret[a].error[1].variant = variant

InTrace(a, step) == \E i \in 1..Len(pw_trace[a]) : pw_trace[a][i] = step

\* the call ended at line 85: the role has no secret
NoSecretRun(a) ==
    /\ PwDone(a)
    /\ pw_log[a] = <<<<"authentication info not found">>>>

\* the call ended at lines 101-104: the exchange judged the password wrong
ScramFailedRun(a) ==
    /\ PwDone(a)
    /\ Len(pw_log[a]) = 1
    /\ pw_log[a][1][1] = "auth backend failed with an error"

\* the call got past the checks that do not look at the role's secret
SecretJudged(a) ==
    /\ PwDone(a)
    /\ ~PwFailedWith(a, "GetAuthInfo")
    /\ ~PwFailedWith(a, "IpAddressNotAllowed")
    /\ ~PwFailedWith(a, "TooManyConnections")

\* C17 as stated: for one user, every call for a role without a secret and every call
\* with a wrong password for a role with a secret end with the same outcome,
\* AuthFailed(user).
C17_Original ==
    \A a, b \in Reqs :
        ( /\ pw_in[a].user = pw_in[b].user
          /\ SecretJudged(a) /\ pw_in[a].secret = None
          /\ SecretJudged(b) /\ pw_in[b].secret # None
          /\ pw_in[b].password # pw_in[b].secret[1] ) =>
            /\ pw_ret[a] = pw_ret[b]
            /\ pw_ret[a] = PwErr(auth_failed(pw_in[a].user))

\* C17: a call that ends because the role has no secret and a call that ends because
\* the SCRAM exchange failed both return AuthFailed(user), which carries the user name
\* and nothing else, so for one user the two outcomes are equal; the reason of a SCRAM
\* failure is in the log and not in the error.
C17_NoDisclosure ==
    /\ \A a \in Reqs :
          /\ NoSecretRun(a) => /\ pw_in[a].secret = None
                               /\ pw_ret[a] = PwErr(auth_failed(pw_in[a].user))
          /\ ScramFailedRun(a) =>
                /\ pw_in[a].secret # None
                /\ pw_in[a].password # pw_in[a].secret[1]
                /\ pw_ret[a] = PwErr(auth_failed(pw_in[a].user))
                /\ pw_log[a][1][2] = "password doesn't match"
          /\ PwFailedWith(a, "AuthFailed") =>
                /\ NoSecretRun(a) \/ ScramFailedRun(a)
                /\ pw_ret[a].error[1].reason = None
                /\ pw_ret[a].error[1].user = pw_in[a].user
    /\ \A a, b \in Reqs :
          (NoSecretRun(a) /\ ScramFailedRun(b) /\ pw_in[a].user = pw_in[b].user) =>
              pw_ret[a] = pw_ret[b]

C17_Witness ==
    \E a, b \in Reqs :
        /\ NoSecretRun(a) /\ ScramFailedRun(b)
        /\ pw_in[a].user = pw_in[b].user
        /\ pw_ret[a] = pw_ret[b]
        /\ PwFailedWith(a, "AuthFailed")

\* the fixed order of the checks
PwOrder ==
    <<"get_allowed_ips_and_secret", "check_peer_addr_is_in_list", "endpoint_rate_limiter",
      "get_role_secret", "check_rate_limit", "validate_password_and_exchange">>

PwIndex(step) == CHOOSE i \in 1..Len(PwOrder) : PwOrder[i] = step

C18_State ==
    \A a \in Reqs :
        /\ \A i, j \in 1..Len(pw_trace[a]) :
              i < j => PwIndex(pw_trace[a][i]) < PwIndex(pw_trace[a][j])
        /\ PwFailedWith(a, "IpAddressNotAllowed") =>
              /\ pw_trace[a] = SubSeq(PwOrder, 1, 2)
              /\ ip_allowlist_check_enabled
        /\ PwFailedWith(a, "TooManyConnections") =>
              /\ pw_trace[a][Len(pw_trace[a])] = "endpoint_rate_limiter"
              /\ ~InTrace(a, "get_role_secret")
              /\ ~InTrace(a, "check_rate_limit")
              /\ ~InTrace(a, "validate_password_and_exchange")
        /\ PwFailedWith(a, "Backoff") =>
              /\ pw_trace[a][Len(pw_trace[a])] = "check_rate_limit"
        /\ pw_ret[a].tag = "Ok" =>
              /\ InTrace(a, "get_allowed_ips_and_secret")
              /\ ip_allowlist_check_enabled =>
                    /\ InTrace(a, "check_peer_addr_is_in_list")
                    /\ check_peer_addr_is_in_list(pw_in[a].peer, pw_in[a].allowed_ips)
              /\ InTrace(a, "endpoint_rate_limiter")
              /\ pw_in[a].cached \/ InTrace(a, "get_role_secret")
              /\ InTrace(a, "check_rate_limit")
              /\ pw_trace[a][Len(pw_trace[a])] = "validate_password_and_exchange"
              /\ pw_in[a].secret = Some(pw_in[a].password)
              /\ pw_ret[a].creds[1].info = ComputeUserInfo(pw_in[a].user)
        /\ (PwDone(a) /\ pw_ret[a].tag = "Err") => pw_ret[a].creds = None

C18_Step ==
    \A a \in Reqs :
        /\ (~PwFailedWith(a, "IpAddressNotAllowed") /\ PwFailedWith(a, "IpAddressNotAllowed")')
              => bucket' = bucket
        /\ (~PwFailedWith(a, "TooManyConnections") /\ PwFailedWith(a, "TooManyConnections")')
              => /\ bucket' = bucket
                 /\ bucket[Endpoint] = 0
        /\ InTrace(a, "endpoint_rate_limiter")' /\ ~InTrace(a, "endpoint_rate_limiter")
           /\ ~PwFailedWith(a, "TooManyConnections")'
              => bucket'[Endpoint] = bucket[Endpoint] - 1
        /\ pw_trace[a] # pw_trace'[a] =>
              /\ pw_pc[a] # "done"
              /\ Len(pw_trace[a]) < Len(pw_trace'[a])
              /\ SubSeq(pw_trace'[a], 1, Len(pw_trace[a])) = pw_trace[a]

\* C18: the checks run in the order allow-list, endpoint rate limiter, role secret,
\* auth-attempt rate limit, SCRAM exchange, and the call stops at the first that fails:
\* IpAddressNotAllowed takes no token from the endpoint rate limiter,
\* TooManyConnections is followed by no secret fetch, no auth-attempt check and no
\* exchange, and credentials are returned only after all checks passed, with the
\* caller's ComputeUserInfo.
C18_CheckOrder == [](C18_State) /\ [][C18_Step]_vars

C18_Witness ==
    \E a, b \in Reqs :
        /\ PwFailedWith(a, "TooManyConnections")
        /\ pw_ret[b].tag = "Ok"
        /\ InTrace(b, "get_role_secret")

\* ---- the native pool and the retry/wake controller
KeyOf(r) == conn_info[r][1]

C12_Step ==
    \A r \in Reqs :
        (rpc[r] = "start" /\ rpc'[r] # "start" /\ mech'[r] = "tokio") =>
            LET key == conn_info'[r][1]
                gone == pool[key] \ pool'[key]
            IN  /\ rret'[r].tag = "Ok" =>
                      /\ rret'[r].conn[1] \in pool[key]
                      /\ ~conns[rret'[r].conn[1]].closed
                      /\ gone = {rret'[r].conn[1]}
                /\ rret'[r].tag = "Err" =>
                      /\ rret'[r].error[1].variant = "ConnectionClosedAbruptly"
                      /\ \E c \in gone : conns[c].closed
                /\ rret'[r].tag = "Pending" => rpc'[r] = "wake"
                /\ \A c \in gone : conns[c].closed => client'[r] # Some(c)
                /\ pool'[key] \subseteq pool[key]

C12_State ==
    \A r \in Reqs :
        (rret[r].tag = "Ok" /\ ~force_new[r] /\ connect_calls[r] >= 1) =>
            rret[r].conn = Some(r)

\* C12: a pool lookup never hands out an entry whose driver task has observed a
\* terminal error: the lookup of connect_to_compute returns an idle entry that is
\* live, or fails with the pool's error, or goes on to open a new connection, and a
\* dead entry it meets leaves the idle set.
C12_NoDeadEntry == [](C12_State) /\ [][C12_Step]_vars

C12_Witness ==
    \E r, c \in Reqs :
        /\ r # c
        /\ conn_info[r] # None
        /\ conns[c].closed
        /\ conns[c].key = KeyOf(r)
        /\ c \notin pool[KeyOf(r)]
        /\ rret[r].tag = "Err"
        /\ rret[r].error[1].variant = "ConnectionClosedAbruptly"

WakeRpcs(r) == Cardinality({i \in 1..Len(wake_log[r]) : wake_log[r][i] = "rpc"})

\* a connect_once of r has just failed
AttemptFailed(r) ==
    \/ /\ rpc[r] = "acquire"
       /\ connect_calls'[r] # connect_calls[r]
       /\ rpc'[r] # "connecting"
    \/ /\ rpc[r] = "connecting"
       /\ rpc'[r] \in {"wake", "acquire", "done"}
       /\ rret'[r].tag # "Ok"

C20_Step ==
    \A r \in Reqs :
        /\ AttemptFailed(r) =>
              LET e == last_err'[r][1]
                  again == could_retry(e) /\ num_retries[r] < MaxRetries
              IN  /\ rpc'[r] \in {"wake", "acquire"} <=> again
                  /\ again => /\ num_retries'[r] = num_retries[r] + 1
                              /\ rret'[r] = rret[r]
                  /\ rpc'[r] = "wake" <=> (again /\ should_retry_wake_compute(e))
                  /\ rpc'[r] = "wake" => node_info'[r] = None
                  /\ rpc'[r] = "acquire" => node_info'[r] = node_info[r]
                  /\ ~again => /\ rret'[r] = CallErr(e)
                               /\ rpc'[r] = "done"
                  /\ wake_calls'[r] = wake_calls[r]
        /\ (rpc[r] = "wake" /\ rpc'[r] # "wake" /\ rpc'[r] # "cancelled") =>
              /\ wake_calls'[r] = wake_calls[r] + 1
              /\ Len(wake_log'[r]) = wake_calls'[r]
              /\ (wake_calls[r] > 0 /\ auth_backend = "ControlPlane") =>
                    WakeRpcs(r)' = WakeRpcs(r) + 1

C20_State ==
    \A r \in Reqs :
        /\ connect_calls[r] <= MaxRetries + 1
        /\ wake_calls[r] <= MaxRetries + 1
        /\ num_retries[r] <= MaxRetries
        /\ connect_calls[r] <= num_retries[r] + 1
        /\ ( /\ rret[r] = CallOk(r)
             /\ connect_calls[r] = 2
             /\ wake_calls[r] = 2
             /\ wake_log[r][1] = "cache" ) =>
                /\ WakeRpcs(r) = 1
                /\ last_err[r][1].variant = "PostgresConnectionError"
                /\ could_retry(last_err[r][1])
                /\ should_retry_wake_compute(last_err[r][1])

C20_RetryNoWake ==
    \E r \in Reqs :
        /\ rret[r] = CallOk(r)
        /\ connect_calls[r] = 2
        /\ wake_calls[r] = 1

\* ---- the three pools and the per-host permits
Holders(c) == {r \in Reqs : client[r] = Some(c)}

IdleIn(p, c) == {k \in ConnInfos : c \in p[k]}

IsIdle(c) == IdleIn(pool, c) \cup IdleIn(http_pool, c) \cup IdleIn(local_pool, c) # {}

\* r has just taken an entry out of a pool
CheckedOut(r) ==
    /\ rpc[r] = "start"
    /\ rret'[r].tag = "Ok"

C11_State ==
    \A c \in Reqs :
        /\ Cardinality(Holders(c)) <= 1
        /\ ~(IsIdle(c) /\ Holders(c) # {})
        /\ (IsIdle(c) \/ Holders(c) # {}) => conns[c].st = "open"
        /\ IdleIn(pool, c) \subseteq {k \in {conns[c].key} : mech[c] = "tokio"}
        /\ IdleIn(http_pool, c) \subseteq {k \in {conns[c].key} : mech[c] = "hyper"}
        /\ IdleIn(local_pool, c) \subseteq {k \in {conns[c].key} : mech[c] = "local"}

C11_Step ==
    \A r \in Reqs :
        CheckedOut(r) =>
            \A c \in Reqs :
                rret'[r].conn = Some(c) =>
                    /\ IsIdle(c)
                    /\ ~IsIdle(c)'
                    /\ Holders(c) = {}
                    /\ Holders(c)' = {r}
                    /\ conns[c].key = conn_info'[r][1]
                    /\ mech[c] = mech'[r]

C11_Reused ==
    \E r, q \in Reqs :
        /\ r # q
        /\ mech[r] = "hyper"
        /\ client[r] = Some(q)
        /\ rpc[q] = "dropped"

PermitHolders(h) == {r \in Reqs : held_permit[r] = Some(h)}

C13_State ==
    /\ \A h \in DOMAIN permits : permits[h] = Cardinality(PermitHolders(h))
    /\ \A r \in Reqs :
          /\ held_permit[r] # None => rpc[r] = "connecting"
          /\ rret[r].tag # "Pending" => held_permit[r] = None
          /\ rpc[r] = "cancelled" => held_permit[r] = None
    /\ \A c \in Reqs : (IsIdle(c) \/ Holders(c) # {}) => held_permit[c] = None

C13_Step ==
    \A r \in Reqs :
        /\ (rpc[r] = "connecting" /\ rpc'[r] # "connecting") =>
              /\ held_permit'[r] = None
              /\ permits'[held_permit[r][1]] = permits[held_permit[r][1]] - 1
        /\ (rpc[r] = "acquire" /\ permit_calls'[r] # permit_calls[r]
            /\ rpc'[r] # "connecting") =>
              /\ mech[r] = "hyper"
              /\ node_info[r][1].ports = <<>>
              /\ permits' = permits
              /\ held_permit'[r] = None
              /\ last_err'[r] = Some(HttpConnError("WakeCompute", "", NoInner))

\* C13: a per-host permit is held only while a connect_once attempt is in flight: the
\* permits in use are exactly those of the attempts in flight, and a connect failure,
\* a missing local-proxy port, a cancellation and a success all leave the call without
\* a permit, so no returned error and no pooled connection comes with one.
C13_PermitReleased == [](C13_State) /\ [][C13_Step]_vars

C13_Witness ==
    \E r, q \in Reqs :
        /\ mech[r] = "hyper"
        /\ permit_calls[r] = 1
        /\ rret[r] = CallErr(HttpConnError("WakeCompute", "", NoInner))
        /\ rpc[q] = "cancelled"
        /\ permit_calls[q] = 1
        /\ permits[ComputeHost] = 0

\* the attempts in flight to host h
InFlight(h) == {r \in Reqs : rpc[r] = "connecting" /\ node_info[r][1].host = Some(h)}

C14_State ==
    /\ \A h \in DOMAIN permits :
          /\ Cardinality(InFlight(h)) <= PermitLimit
          /\ permits[h] <= PermitLimit
    /\ \A r \in Reqs :
          rpc[r] = "connecting" => held_permit[r] = node_info[r][1].host

C14_Step ==
    \A r \in Reqs :
        /\ (rpc[r] # "connecting" /\ rpc'[r] = "connecting") =>
              /\ rpc[r] = "acquire"
              /\ permits[node_info[r][1].host[1]] < PermitLimit
              /\ permit_calls'[r] = permit_calls[r] + 1
        /\ (last_err'[r] # last_err[r]
            /\ last_err'[r][1].variant = "TooManyConnectionAttempts") =>
              /\ rpc[r] = "acquire"
              /\ permits[node_info[r][1].host[1]] >= PermitLimit
              /\ permits' = permits
              /\ permit_calls'[r] = permit_calls[r]
              /\ rret'[r] = CallErr(last_err'[r][1])

\* C14: the attempts in flight to a host never outnumber the host's permits: an
\* attempt of either mechanism starts only from a free permit that it takes, and a
\* call that finds no free permit fails with TooManyConnectionAttempts without
\* starting an attempt.
C14_PermitLimit == [](C14_State) /\ [][C14_Step]_vars

C14_Witness ==
    \E r, q \in Reqs :
        /\ mech[r] = "tokio" /\ rpc[r] = "connecting"
        /\ mech[q] = "hyper"
        /\ rret[q] = CallErr(HttpConnError("TooManyConnectionAttempts", "", NoInner))
        /\ permit_calls[q] = 0

\* C16: a connection returned by connect_to_compute or connect_to_local_postgres,
\* fresh or from the pool, has the user and dbname of the ConnInfo of the call.
C16_UserDbname ==
    \A r \in Reqs :
        (rret[r].tag = "Ok" /\ mech[r] \in {"tokio", "local"}) =>
            LET c == rret[r].conn[1]
            IN  /\ conns[c].user = KeyOf(r).user
                /\ conns[c].dbname = KeyOf(r).dbname
                /\ conns[c].key = KeyOf(r)
                /\ mech[c] = mech[r]

C16_Witness ==
    \E r, q \in Reqs :
        /\ mech[r] = "local" /\ rret[r] = CallOk(r)
        /\ mech[q] = "tokio" /\ rret[q] = CallOk(q)
        /\ conns[r].user # LocalNode.user
        /\ conns[q].user = KeyOf(q).user

C19_State ==
    auth_backend # "Local" =>
        /\ \A k \in ConnInfos : local_pool[k] = {}
        /\ \A r \in Reqs :
              mech[r] = "local" =>
                  /\ rpc[r] = "panicked"
                  /\ rret[r] = CallPending
                  /\ client[r] = None

C19_Step ==
    \A r \in Reqs :
        (auth_backend # "Local" /\ rpc[r] = "panicked") => rpc'[r] = "panicked"

\* C19: with an auth backend that is not Local, every connect_to_local_postgres
\* call aborts: it returns neither a client nor an error, and stays aborted.
C19_LocalPanics == [](C19_State) /\ [][C19_Step]_vars

C19_Witness ==
    \E r, q \in Reqs :
        /\ auth_backend = "ControlPlane"
        /\ rpc[r] = "panicked"
        /\ mech[q] = "tokio"
        /\ q \in pool[KeyOf(r)]

\* ================================================================ claim C21
\* the connection a finished connect_to_local_postgres call returned
LocalReturned(r) ==
    IF mech[r] = "local" /\ rret[r].tag = "Ok" THEN {rret[r].conn[1]} ELSE {}

\* C21: every LocalClient connect_to_local_postgres returns is on a connection on
\* which auth.init has completed, and no connection whose auth.init has not
\* completed is idle in the local pool.
C21_SessionState ==
    /\ \A r \in Reqs : LocalReturned(r) \subseteq session_init
    /\ \A k \in ConnInfos : local_pool[k] \subseteq session_init

\* the part that holds: a call that opened its connection itself returns it only
\* after auth.init has completed on it
C21_FreshInit ==
    \A r \in Reqs : LocalReturned(r) = {r} => r \in session_init

\* a call was answered from the local pool with a connection another call left
\* there after its auth.init had failed
C21_Uninitialised ==
    \E r, q \in Reqs :
        /\ r # q
        /\ LocalReturned(r) = {q}
        /\ rret[q].tag = "Err"
        /\ q \notin session_init

\* ================================================================ claim C22
\* the errors HyperMechanism::connect_once can return
HyperErrors ==
    {HttpConnError("WakeCompute", "", NoInner),
     HttpConnError("TooManyConnectionAttempts", "", NoInner)}
    \cup {HttpConnError("LocalProxyConnectionError", l, NoInner) : l \in {"Io", "H2"}}

C22_State ==
    /\ \A e \in HyperErrors : ~could_retry(e)
    /\ \A r \in Reqs :
          mech[r] = "hyper" =>
              /\ connect_calls[r] <= 1
              /\ num_retries[r] = 0
              /\ last_err[r] # None =>
                    /\ last_err[r][1] \in HyperErrors
                    /\ rret[r] = CallErr(last_err[r][1])

C22_Step ==
    \A r \in Reqs :
        (mech[r] = "hyper" /\ AttemptFailed(r)) =>
            /\ rpc'[r] = "done"
            /\ rret'[r] = CallErr(last_err'[r][1])
            /\ wake_calls'[r] = wake_calls[r]

\* C22: on the HTTP/2 local-proxy path no error of connect_once has could_retry, so
\* a connect_to_local_proxy call that misses the pool invokes connect_once at most
\* once, and a failed attempt ends the call with the error of that attempt.
C22_NoRepeat == [](C22_State) /\ [][C22_Step]_vars

C22_Witness ==
    \E r, q \in Reqs :
        /\ mech[r] = "hyper" /\ mech[q] = "hyper"
        /\ connect_calls[r] = 1 /\ connect_calls[q] = 1
        /\ rpc[r] = "done" /\ rpc[q] = "done"
        /\ rret[r] = CallErr(HttpConnError("LocalProxyConnectionError", "Io", NoInner))
        /\ rret[q] = CallErr(HttpConnError("WakeCompute", "", NoInner))

\* a call ended by the permit failure of its only attempt
C22_PermitFailure ==
    \E r \in Reqs :
        /\ mech[r] = "hyper"
        /\ connect_calls[r] = 1
        /\ rret[r] = CallErr(HttpConnError("TooManyConnectionAttempts", "", NoInner))

\* ================================================================ claim C23
\* TcpStream::connect(a) completes with a stream within the timeout
Connects(a) == h2_in.fate[a].res = "connected" /\ h2_in.fate[a].after <= ConnectTimeout

\* the Io error a failed or timed-out connect to a leaves
ConnectErrOf(a) ==
    IF h2_in.fate[a].after > ConnectTimeout
    THEN LocalProxyConnError("Io", "TimedOut", a, "")
    ELSE LocalProxyConnError("Io", "Os", a, "")

NoneConnects == \A i \in 1..Len(h2_in.resolved) : ~Connects(h2_in.resolved[i])

C23_State ==
    /\ Len(h2_spent) = Len(h2_tried)
    /\ \A i \in 1..Len(h2_spent) : h2_spent[i] <= ConnectTimeout
    /\ h2_tried = SubSeq(h2_in.resolved, 1, Len(h2_tried))
    /\ h2_pc \in {"loop", "handshake"} =>
          h2_in.resolved = h2_tried \o addrs
    /\ \A i \in 1..(Len(h2_tried) - 1) : ~Connects(h2_tried[i])
    /\ stream # None =>
          /\ h2_tried # <<>>
          /\ stream[1] = h2_tried[Len(h2_tried)]
          /\ Connects(stream[1])
    /\ Len(h2_shaken) <= 1
    /\ h2_shaken # <<>> => (stream # None /\ h2_shaken = <<stream[1]>>)
    /\ (h2_pc = "done" /\ h2_in.lookup_ok /\ NoneConnects) =>
          /\ h2_tried = h2_in.resolved
          /\ h2_shaken = <<>>
          /\ h2_ret = H2Err(IF h2_in.resolved = <<>>
                            THEN NoAddresses
                            ELSE ConnectErrOf(h2_in.resolved[Len(h2_in.resolved)]))
    /\ h2_ret.tag = "Ok" =>
          /\ stream = h2_ret.stream
          /\ h2_shaken = <<stream[1]>>

C23_Step ==
    /\ Len(h2_tried') <= Len(h2_tried) + 1
    /\ stream # None => (h2_tried' = h2_tried /\ stream' = stream)

\* C23: connect_http2 tries the resolved addresses one at a time in resolution
\* order, each connect awaited for at most the timeout, and tries none after the
\* first that connects; when none connects it returns the Io error of the last
\* address, or the InvalidInput error "could not resolve any addresses" when
\* there was no address; the HTTP/2 handshake runs only on the connected stream.
C23_ConnectHttp2 == [](C23_State) /\ [][C23_Step]_vars

C23_Witness ==
    /\ h2_pc = "done"
    /\ Len(h2_in.resolved) = 2
    /\ h2_in.fate[h2_in.resolved[1]].after > ConnectTimeout
    /\ h2_tried = h2_in.resolved
    /\ h2_ret = H2Ok(h2_in.resolved[2])

\* both addresses failed, the first by timeout and the last refused
C23_LastError ==
    /\ h2_pc = "done"
    /\ Len(h2_tried) = 2
    /\ h2_in.fate[h2_tried[1]].after > ConnectTimeout
    /\ h2_ret = H2Err(LocalProxyConnError("Io", "Os", h2_tried[2], ""))

\* the first address connected and the second was never tried
C23_StopsAtFirst ==
    /\ h2_pc = "done"
    /\ Len(h2_in.resolved) = 2
    /\ Len(h2_tried) = 1
    /\ Connects(h2_in.resolved[2])
    /\ h2_ret.tag = "Ok"

\* resolution yielded no address
C23_NoAddress ==
    /\ h2_pc = "done"
    /\ h2_in.lookup_ok
    /\ h2_in.resolved = <<>>
    /\ h2_ret = H2Err(NoAddresses)

\* ================================================================ claim C24
\* the wait yielded a DatabaseInfo and the allow-list does not apply to it
NotGated(s) ==
    /\ db_info[s] # None
    /\ ~ip_allowlist_check_enabled \/ db_info[s][1].allowed_ips = None

NoticeWritten(s) ==
    \E i \in 1..Len(out[s]) : out[s][i] = BeNoticeResponse(ConnectingNotice)

IpError(s) == ret[s].tag = "Err" /\ ret[s].error[1].variant = "IpAddressNotAllowed"

\* a call allowed through wrote the notice last and returned the NodeInfo
Admitted(s) ==
    /\ ret[s] = Ok(BuildNodeInfo(db_info[s][1]))
    /\ out[s][Len(out[s])] = BeNoticeResponse(ConnectingNotice)

RejectedOnlyByList(s) ==
    IpError(s) =>
        /\ ip_allowlist_check_enabled
        /\ PeerOutsideList(s)
        /\ ret[s] = Err(ip_address_not_allowed(peer_addr[s]))
        /\ ~NoticeWritten(s)

\* C24 as stated: with the check disabled or allowed_ips absent the call always
\* writes the notice and returns a NodeInfo.
C24_Original ==
    \A s \in Sessions :
        /\ RejectedOnlyByList(s)
        /\ NotGated(s) => Admitted(s)

\* C24: IpAddressNotAllowed is returned only with the check enabled, allowed_ips
\* present and the peer outside the list, and before the notice is written; with
\* the check disabled or allowed_ips absent no peer is rejected: the call goes on
\* to the notice and returns the NodeInfo, or returns the Io error of that write.
C24_IpGate ==
    \A s \in Sessions :
        /\ RejectedOnlyByList(s)
        /\ NotGated(s) =>
              /\ ~IpError(s)
              /\ \/ Admitted(s)
                 \/ /\ ret[s] = Err(WebAuthError("Io"))
                    /\ ~NoticeWritten(s)

C24_Witness ==
    \E s, q \in Sessions :
        /\ ip_allowlist_check_enabled
        /\ db_info[s] # None /\ db_info[s][1].allowed_ips = None
        /\ Admitted(s)
        /\ IpError(q)
        /\ Len(out[q]) = 4

\* the check is disabled and a peer outside the list is let through
C24_Disabled ==
    \E s \in Sessions :
        /\ ~ip_allowlist_check_enabled
        /\ PeerOutsideList(s)
        /\ Admitted(s)

====
